---- MODULE Spec2Model ----
(***************************************************************************)
(* PlayPort (src/src/playport.py): the provider resolution and artifact    *)
(* acquisition pipeline.                                                   *)
(*                                                                         *)
(* Text is modelled as a sequence of tokens.  A version identifier is a    *)
(* sequence of one-character strings ("1.20" is <<"1",".","2","0">>), so   *)
(* that splitting, integer parsing, pattern matching and formatting are    *)
(* computed as the code computes them.  The literal pieces of a template   *)
(* (a URL prefix, ".jar") are single tokens.                               *)
(***************************************************************************)
EXTENDS Integers, Sequences, FiniteSets, TLC

(***************************************************************************)
(* Bounds of the model.                                                    *)
(***************************************************************************)
\* longest upstream listing that is enumerated entry by entry
MaxLen == 3
\* how far past the cap the long upstream listings go
MaxOver == 1
\* longest builds array, artifact list, asset list and installer listing
MaxBuilds == 2
\* the size of a downloaded artifact, and of one whose stream broke
FullSize == 4
PartSize == 1
\* the size of a file left in the target folder by an earlier installation
OldSize == 5
\* how many times Create Server and Fetch Versions are pressed with effect
MaxClicks == 2
MaxFetches == 2

(***************************************************************************)
(* Program constants.                                                      *)
(***************************************************************************)
\* versions[:100], the cap of every listing
MaxVersions == 100
\* range(100, 0, -1) of DUMMY_VERSIONS
DummyTop == 100

(***************************************************************************)
(* Text helpers.                                                           *)
(***************************************************************************)
Digits == {"0", "1", "2", "3", "4", "5", "6", "7", "8", "9"}

DigitVal(c) ==
    CASE c = "0" -> 0 [] c = "1" -> 1 [] c = "2" -> 2 [] c = "3" -> 3
      [] c = "4" -> 4 [] c = "5" -> 5 [] c = "6" -> 6 [] c = "7" -> 7
      [] c = "8" -> 8 [] c = "9" -> 9

DigitChar(d) ==
    CASE d = 0 -> "0" [] d = 1 -> "1" [] d = 2 -> "2" [] d = 3 -> "3"
      [] d = 4 -> "4" [] d = 5 -> "5" [] d = 6 -> "6" [] d = 7 -> "7"
      [] d = 8 -> "8" [] d = 9 -> "9"

\* str(n) for n >= 0
RECURSIVE Str(_)
Str(n) == IF n < 10 THEN <<DigitChar(n)>> ELSE Str(n \div 10) \o <<DigitChar(n % 10)>>

\* int(part) succeeds: within the alphabet of the model, a non-empty run of digits
IsInt(part) == Len(part) > 0 /\ \A i \in 1..Len(part) : part[i] \in Digits

\* int(part) for a run of digits
RECURSIVE IntOf(_)
IntOf(part) ==
    IF Len(part) = 0 THEN 0
    ELSE 10 * IntOf(SubSeq(part, 1, Len(part) - 1)) + DigitVal(part[Len(part)])

\* re.split(r'[.-]', v): the parts between separators, empty parts kept
RECURSIVE SplitFrom(_, _, _, _)
SplitFrom(v, seps, i, cur) ==
    IF i > Len(v) THEN <<cur>>
    ELSE IF v[i] \in seps THEN <<cur>> \o SplitFrom(v, seps, i + 1, <<>>)
    ELSE SplitFrom(v, seps, i + 1, Append(cur, v[i]))

Split(v) == SplitFrom(v, {".", "-"}, 1, <<>>)

Min(a, b) == IF a < b THEN a ELSE b

Range(s) == {s[i] : i \in 1..Len(s)}

Reverse(s) == [i \in 1..Len(s) |-> s[Len(s) + 1 - i]]

\* Python's comparison of two tuples of integers: a < b
RECURSIVE TupleLess(_, _)
TupleLess(a, b) ==
    IF Len(b) = 0 THEN FALSE
    ELSE IF Len(a) = 0 THEN TRUE
    ELSE IF a[1] # b[1] THEN a[1] < b[1]
    ELSE TupleLess(Tail(a), Tail(b))

(***************************************************************************)
(* version_key and the sort of fetch_versions.                             *)
(***************************************************************************)
version_key(v) ==
    LET parts == Split(v)
    IN  [i \in 1..Len(parts) |-> IF IsInt(parts[i]) THEN IntOf(parts[i]) ELSE 0]

\* the listing left in upstream order
SortAsIs(s) == s

\* the key of every entry, computed once as list.sort does
KeysOf(s) == [i \in 1..Len(s) |-> version_key(s[i])]

\* where a stable descending sort puts the entry at upstream index i: after
\* every entry of greater key and every earlier entry of equal key
PlaceOf(keys) ==
    [i \in 1..Len(keys) |->
        1 + Cardinality({j \in 1..Len(keys) :
                           \/ TupleLess(keys[i], keys[j])
                           \/ j < i /\ keys[j] = keys[i]})]

Arranged(s, place) == [p \in 1..Len(s) |-> s[CHOOSE i \in 1..Len(s) : place[i] = p]]

\* versions.sort(key=version_key, reverse=True): descending by key and stable.
\* (The bound variables make TLC compute keys and places once per sort.)
SortDesc(s) ==
    CHOOSE sorted \in {Arranged(s, place) :
                         place \in {PlaceOf(keys) : keys \in {KeysOf(s)}}} : TRUE

\* the listing left at its full length
NoCap(s) == s

\* versions[:100]
Cap(s) == SubSeq(s, 1, Min(Len(s), MaxVersions))

(***************************************************************************)
(* Providers.                                                              *)
(***************************************************************************)
\* the keys of versions_urls: SOFTWARE_OPTIONS in lower case
Providers ==
    {"vanilla", "forge", "fabric", "neoforge", "quilt", "spigot", "paper",
     "purpur", "pufferfish", "folia", "bungeecord", "velocity", "waterfall",
     "nukkit", "pocketmine-mp"}

\* a name that is no key of versions_urls
UnknownSoftware == "glowstone"

MavenProviders == {"forge", "neoforge"}
PaperFamily == {"waterfall", "velocity", "folia", "paper"}
\* the providers whose listing is read from data.get("versions", [])
VersionsArrayProviders == PaperFamily \cup {"purpur"}

(***************************************************************************)
(* Version texts used as upstream data.                                    *)
(***************************************************************************)
V1_2_5 == <<"1", ".", "2", ".", "5">>
V1_20_1 == <<"1", ".", "2", "0", ".", "1">>
V1_20_4 == <<"1", ".", "2", "0", ".", "4">>
V1_20 == <<"1", ".", "2", "0">>
V1_020 == <<"1", ".", "0", "2", "0">>
V1_20a == <<"1", ".", "2", "0", "-", "a">>
V1_20b == <<"1", ".", "2", "0", "-", "b">>
VLatestWord == <<"l", "a", "t", "e", "s", "t">>
VUnknownTag == <<"u", "n", "k", "n", "o", "w", "n">>

\* DUMMY_VERSIONS = [f"1.{i}" for i in range(100, 0, -1)]
DUMMY_VERSIONS == [i \in 1..DummyTop |-> <<"1", ".">> \o Str(DummyTop + 1 - i)]

\* the fixed label of the static provider
LatestLabel == <<"Latest">>

(***************************************************************************)
(* The upstream's answer to the one request of fetch_versions.             *)
(*   net    "ok": a 2xx response; "transport": requests.get raises         *)
(*          (connection error, timeout); "status": raise_for_status raises *)
(*   parse  the body parses (JSON for res.json(), XML for ET.fromstring)   *)
(*   top    the parsed JSON value is of the container type the code        *)
(*          expects (an object, or an array for fabric, quilt,             *)
(*          pocketmine-mp)                                                 *)
(*   field  the object holds the key the code reads (versions, jobs,       *)
(*          builds), or the XML holds versioning/versions                  *)
(*   items  the entries of the listing (for a value of the other container *)
(*          type: its members)                                             *)
(* An entry:                                                               *)
(*   has    the entry holds its name (id, version, name, number,           *)
(*          tag_name key; for XML: the element has text)                   *)
(*   name   the text; num: the build number (bungeecord)                   *)
(*   kind   vanilla's type: "release", "snapshot", "none" (no type key)    *)
(*   phar   pocketmine-mp's assets: "yes" (an asset named *.phar), "no",   *)
(*          "noname" (an asset without a name key comes first)             *)
(***************************************************************************)
Item(has, name, num, kind, phar) ==
    [has |-> has, name |-> name, num |-> num, kind |-> kind, phar |-> phar]

Named(name) == Item(TRUE, name, 0, "release", "no")
Nameless == Item(FALSE, <<>>, 0, "release", "no")

Response(net, parse, top, field, items) ==
    [net |-> net, parse |-> parse, top |-> top, field |-> field, items |-> items]

\* href of a directory listing: name + ".json"
Href(v) == v \o <<".json">>

XmlItems == {Named(V1_2_5), Named(V1_20_1), Named(V1_20a), Named(V1_20b), Nameless}

HtmlItems ==
    {Named(Href(V1_2_5)), Named(Href(V1_20_1)), Named(Href(V1_20)),
     Named(Href(V1_020)), Named(Href(VLatestWord)), Named(<<"..", "/">>)}

VanillaItems ==
    {Item(TRUE, V1_20_1, 0, "release", "no"), Item(TRUE, V1_20_4, 0, "release", "no"),
     Item(TRUE, V1_20_4, 0, "snapshot", "no"), Item(TRUE, V1_20_1, 0, "none", "no"),
     Item(FALSE, <<>>, 0, "release", "no")}

PlainItems == {Named(V1_20_1), Named(V1_20_4), Named(V1_2_5)}

NameItems == {Named(V1_20_1), Named(V1_20_4), Nameless}

ReleaseItems ==
    {Item(TRUE, V1_20_1, 0, "release", "yes"), Item(TRUE, V1_20_4, 0, "release", "yes"),
     Item(TRUE, V1_20_4, 0, "release", "no"), Item(FALSE, <<>>, 0, "release", "yes"),
     Item(TRUE, V1_20_1, 0, "release", "noname")}

BuildItems ==
    {Item(TRUE, <<>>, 1700, "release", "no"), Item(TRUE, <<>>, 1701, "release", "no"),
     Item(FALSE, <<>>, 0, "release", "no")}

ItemsOf(software) ==
    CASE software \in MavenProviders -> XmlItems
      [] software = "spigot" -> HtmlItems
      [] software = "vanilla" -> VanillaItems
      [] software \in VersionsArrayProviders -> PlainItems
      [] software \in {"fabric", "quilt", "pufferfish"} -> NameItems
      [] software = "pocketmine-mp" -> ReleaseItems
      [] software = "bungeecord" -> BuildItems
      [] OTHER -> {}

\* every listing of at most n entries over a set of entries
RECURSIVE SeqsUpTo(_, _)
SeqsUpTo(S, n) ==
    IF n = 0 THEN {<<>>}
    ELSE LET shorter == SeqsUpTo(S, n - 1)
         IN  shorter \cup {Append(s, x) : s \in {t \in shorter : Len(t) = n - 1}, x \in S}

\* the i-th entry of a long listing, entries all different: "1.<i>" (a build
\* number for bungeecord, an href for spigot)
LongItem(software, i) ==
    CASE software = "bungeecord" -> Item(TRUE, <<>>, i, "release", "no")
      [] software = "spigot" -> Named(Href(<<"1", ".">> \o Str(i)))
      [] software = "pocketmine-mp" -> Item(TRUE, <<"1", ".">> \o Str(i), 0, "release", "yes")
      [] OTHER -> Named(<<"1", ".">> \o Str(i))

LongListing(software, n) == [i \in 1..n |-> LongItem(software, i)]

LongLens == {MaxVersions, MaxVersions + MaxOver}

\* the answers the upstream may give to fetch_versions(software)
FetchResponses(software) ==
    IF software \in {"nukkit", UnknownSoftware}
    THEN {Response("ok", TRUE, TRUE, TRUE, <<>>), Response("transport", TRUE, TRUE, TRUE, <<>>)}
    ELSE {Response(net, TRUE, TRUE, TRUE, <<>>) : net \in {"transport", "status"}}
         \cup {Response("ok", FALSE, TRUE, TRUE, <<>>)}
         \cup {Response("ok", TRUE, FALSE, TRUE, items) : items \in SeqsUpTo(ItemsOf(software), 1)}
         \cup {Response("ok", TRUE, TRUE, FALSE, <<>>)}
         \cup {Response("ok", TRUE, TRUE, TRUE, items) : items \in SeqsUpTo(ItemsOf(software), MaxLen)}
         \cup {Response("ok", TRUE, TRUE, TRUE, LongListing(software, n)) : n \in LongLens}

(***************************************************************************)
(* fetch_versions.                                                         *)
(***************************************************************************)
Names(items) == [i \in 1..Len(items) |-> items[i].name]

AllNamed(items) == \A i \in 1..Len(items) : items[i].has

\* re.compile(r"^\d+(\.\d+){1,2}$").match(version)
MatchesVersionPattern(v) ==
    LET parts == SplitFrom(v, {"."}, 1, <<>>)
    IN  /\ Len(parts) \in {2, 3}
        /\ \A i \in 1..Len(parts) : IsInt(parts[i])

EndsWithJson(href) == Len(href) > 0 /\ href[Len(href)] = ".json"

\* href.replace(".json", "")
StripJson(href) == SelectSeq(href, LAMBDA t : t # ".json")

Returned(versions) == [raises |-> "no", versions |-> versions]
Raised(kind) == [raises |-> kind, versions |-> <<>>]

\* forge, neoforge: ET.fromstring, findall, sort, cap
MavenListing(resp) ==
    IF ~resp.parse THEN Raised("parse")
    ELSE LET found == IF resp.top /\ resp.field THEN resp.items ELSE <<>>
         IN  IF ~AllNamed(found) THEN Raised("other")
             ELSE Returned(Cap(SortDesc(Names(found))))

\* spigot: every anchor's href that ends in .json and matches the pattern
HtmlListing(resp) ==
    LET anchors == IF resp.parse /\ resp.top /\ resp.field THEN Names(resp.items) ELSE <<>>
        jsons == SelectSeq(anchors, EndsWithJson)
        stripped == [i \in 1..Len(jsons) |-> StripJson(jsons[i])]
        versions == SelectSeq(stripped, MatchesVersionPattern)
    IN  Returned(Cap(SortDesc(versions)))

\* vanilla: [v["id"] for v in data["versions"] if v["type"] == "release"][:100]
VanillaListing(resp) ==
    IF ~resp.top \/ ~resp.field THEN Raised("other")
    ELSE IF \E i \in 1..Len(resp.items) :
                \/ resp.items[i].kind = "none"
                \/ resp.items[i].kind = "release" /\ ~resp.items[i].has
         THEN Raised("other")
         ELSE Returned(Cap(Names(SelectSeq(resp.items, LAMBDA v : v.kind = "release"))))

\* pufferfish: [job["name"] for job in data.get("jobs", [])][::-1][:100]
JobsListing(resp) ==
    IF ~resp.top THEN Raised("other")
    ELSE LET jobs == IF resp.field THEN resp.items ELSE <<>>
         IN  IF ~AllNamed(jobs) THEN Raised("other")
             ELSE Returned(Cap(Reverse(Names(jobs))))

\* the array capped first and reversed after
VersionsArrayCapFirst(resp) ==
    IF ~resp.top THEN Raised("other")
    ELSE Returned(Reverse(Cap(Names(IF resp.field THEN resp.items ELSE <<>>))))

\* purpur and the paper family: data.get("versions", [])[::-1][:100]
VersionsArrayListing(resp) ==
    IF ~resp.top THEN Raised("other")
    ELSE Returned(Cap(Reverse(Names(IF resp.field THEN resp.items ELSE <<>>))))

\* fabric, quilt: [v["version"] for v in data][:100]
InstallerListing(resp) ==
    IF ~resp.top THEN (IF Len(resp.items) > 0 THEN Raised("other") ELSE Returned(<<>>))
    ELSE LET data == IF resp.field THEN resp.items ELSE <<>>
         IN  IF ~AllNamed(data) THEN Raised("other")
             ELSE Returned(Cap(Names(data)))

\* pocketmine-mp: the tag of every release that has a .phar asset
ReleaseListing(resp) ==
    IF ~resp.top THEN (IF Len(resp.items) > 0 THEN Raised("other") ELSE Returned(<<>>))
    ELSE LET data == IF resp.field THEN resp.items ELSE <<>>
             kept == SelectSeq(data, LAMBDA r : r.phar = "yes")
         IN  IF \E i \in 1..Len(data) : data[i].phar = "noname" THEN Raised("other")
             ELSE Returned(Cap([i \in 1..Len(kept) |->
                                  IF kept[i].has THEN kept[i].name ELSE VUnknownTag]))

\* bungeecord: [str(build['number']) for build in data.get('builds', [])][:100]
BuildsListing(resp) ==
    IF ~resp.top THEN Raised("other")
    ELSE LET builds == IF resp.field THEN resp.items ELSE <<>>
         IN  IF ~AllNamed(builds) THEN Raised("other")
             ELSE Returned(Cap([i \in 1..Len(builds) |-> Str(builds[i].num)]))

\* the body of the try block, after raise_for_status
Listing(software, resp) ==
    IF software \in MavenProviders THEN MavenListing(resp)
    ELSE IF software = "spigot" THEN HtmlListing(resp)
    ELSE IF ~resp.parse THEN Raised("request")
    ELSE IF software = "vanilla" THEN VanillaListing(resp)
    ELSE IF software = "pufferfish" THEN JobsListing(resp)
    ELSE IF software = "purpur" THEN VersionsArrayListing(resp)
    ELSE IF software \in {"fabric", "quilt"} THEN InstallerListing(resp)
    ELSE IF software = "pocketmine-mp" THEN ReleaseListing(resp)
    ELSE IF software = "bungeecord" THEN BuildsListing(resp)
    ELSE VersionsArrayListing(resp)

\* an except clause that returns an empty list
FallbackEmpty(kind) == <<>>

\* what fetch_versions returns after any of its except clauses
Fallback(kind) == DUMMY_VERSIONS

\* no provider has a fixed label
NeverStatic(software) == FALSE

\* lines 779-780: nukkit has the one label and no listing to fetch
IsStatic(software) == software = "nukkit"

\* fetch_versions(software) against the upstream's answer: the list returned,
\* the number of requests sent and the except clause taken
fetch_versions(software, resp) ==
    IF IsStatic(software)
    THEN [versions |-> <<LatestLabel>>, requests |-> 0, raised |-> "no"]
    ELSE IF software \notin Providers
    THEN [versions |-> DUMMY_VERSIONS, requests |-> 0, raised |-> "no"]
    ELSE IF resp.net # "ok"
    THEN [versions |-> Fallback("request"), requests |-> 1, raised |-> "request"]
    ELSE LET got == Listing(software, resp)
         IN  IF got.raises = "no"
             THEN [versions |-> got.versions, requests |-> 1, raised |-> "no"]
             ELSE [versions |-> Fallback(got.raises), requests |-> 1, raised |-> got.raises]

(***************************************************************************)
(* The upstream as download_server_jar sees it.                            *)
(*   versions  the versions the upstream knows, in the order its index     *)
(*             lists them (vanilla's manifest, pufferfish's jobs)          *)
(*   builds    the builds of the requested version, in the order the       *)
(*             upstream lists them                                         *)
(*   files     pufferfish: the relative paths of the build's artifacts;    *)
(*             pocketmine-mp: the names of the release's assets; fabric:   *)
(*             the versions of the installer listing                       *)
(*   r         the answers to the metadata requests, in the order they are *)
(*             sent: "ok", "transport" (requests.get raises), "status"     *)
(*             (raise_for_status raises), "badjson" (res.json() raises),   *)
(*             "nofield" (a parsed body without the key the code reads)    *)
(*   dl        the answer to the download request: "ok", "transport",      *)
(*             "status", "midstream" (the stream breaks after the file was *)
(*             opened)                                                     *)
(***************************************************************************)
Upstream(versions, builds, files, r, dl) ==
    [versions |-> versions, builds |-> builds, files |-> files, r |-> r, dl |-> dl]

NetBad == {"transport", "status", "badjson"}

\* versions_urls
versions_urls ==
    [vanilla |-> "https://launchermeta.mojang.com/mc/game/version_manifest.json",
     paper |-> "https://api.papermc.io/v2/projects/paper",
     folia |-> "https://api.papermc.io/v2/projects/folia",
     velocity |-> "https://api.papermc.io/v2/projects/velocity",
     waterfall |-> "https://api.papermc.io/v2/projects/waterfall",
     nukkit |-> "https://ci.opencollab.dev/job/NukkitX/job/Nukkit/job/master/lastSuccessfulBuild/artifact/target/nukkit-1.0-SNAPSHOT.jar",
     fabric |-> "https://meta.fabricmc.net/v2/versions/installer",
     purpur |-> "https://api.purpurmc.org/v2/purpur/",
     pufferfish |-> "https://ci.pufferfish.host/view/all/api/json"]

\* the URL as the upstream gave it
KeepSlash(u) == u

\* url.rstrip('/')
RECURSIVE RStripSlash(_)
RStripSlash(u) ==
    IF Len(u) > 0 /\ u[Len(u)] = "/" THEN RStripSlash(SubSeq(u, 1, Len(u) - 1)) ELSE u

\* name.endswith(".phar")
EndsWithPhar(name) == Len(name) > 0 /\ name[Len(name)] = ".phar"

\* the URLs the upstream's own answers carry
JobUrl(version) == <<"https://ci.pufferfish.host/job/">> \o version \o <<"/">>
BuildUrl(version, build) == JobUrl(version) \o Str(build) \o <<"/">>
VersionJsonUrl(version) == <<"https://piston-meta.mojang.com/v1/packages/">> \o version \o <<".json">>
ServerJarUrl(version) == <<"https://piston-data.mojang.com/v1/objects/">> \o version \o <<"/server.jar">>
AssetUrl(version, name) ==
    <<"https://github.com/pmmp/PocketMine-MP/releases/download/">> \o version \o <<"/">> \o name

(***************************************************************************)
(* download_server_jar: the resolution recipes.  A recipe ends resolved    *)
(* (download_url, file_name) or failed; diag names the message printed:    *)
(* the recipe's own ("version_required", "version_not_found", "no_builds", *)
(* "no_artifacts", "no_latest_build", "no_phar", "unknown_type"), the      *)
(* RequestException clause ("network") or the last except clause           *)
(* ("unexpected").  sent lists the URLs requested, in order.               *)
(***************************************************************************)
\* a failed request sent once more before the recipe gives up
FailedRetried(diag, sent) ==
    [resolved |-> FALSE, diag |-> diag, url |-> <<>>, file_name |-> <<>>,
     sent |-> IF sent = <<>> THEN sent ELSE Append(sent, sent[Len(sent)])]

Failed(diag, sent) ==
    [resolved |-> FALSE, diag |-> diag, url |-> <<>>, file_name |-> <<>>, sent |-> sent]

Resolved(url, file_name, sent) ==
    [resolved |-> TRUE, diag |-> "none", url |-> url, file_name |-> file_name, sent |-> sent]

\* the first index of s whose entry satisfies Test, 0 when there is none
FirstIndex(s, Test(_)) ==
    IF \E i \in 1..Len(s) : Test(s[i])
    THEN CHOOSE i \in 1..Len(s) : Test(s[i]) /\ \A j \in 1..(i - 1) : ~Test(s[j])
    ELSE 0

\* the first entry, whatever was asked for
FindFirst(entries, version) == IF entries = <<>> THEN 0 ELSE 1

\* next((... for entry in entries if entry's name == version), None): the
\* index of the first entry named version, 0 for None
FindVersion(entries, version) == FirstIndex(entries, LAMBDA name : name = version)

\* lines 865-901
ResolvePufferfish(version, up) ==
    LET base_url == <<versions_urls.pufferfish>>
        jobs == IF up.r[1] = "nofield" THEN <<>> ELSE up.versions
        job == FindVersion(jobs, version)
        version_api_url == RStripSlash(JobUrl(version)) \o <<"/api/json">>
        builds == IF up.r[2] = "nofield" THEN <<>> ELSE up.builds
        latest_build_url == BuildUrl(version, builds[1])
        latest_build_api_url == RStripSlash(latest_build_url) \o <<"/api/json">>
        artifacts == IF up.r[3] = "nofield" THEN <<>> ELSE up.files
    IN  IF version = <<>> THEN Failed("version_required", <<>>)
        ELSE IF up.r[1] \in NetBad THEN Failed("network", <<base_url>>)
        ELSE IF job = 0 THEN Failed("version_not_found", <<base_url>>)
        ELSE IF up.r[2] \in NetBad THEN Failed("network", <<base_url, version_api_url>>)
        ELSE IF builds = <<>> THEN Failed("no_builds", <<base_url, version_api_url>>)
        ELSE IF up.r[3] \in NetBad
             THEN Failed("network", <<base_url, version_api_url, latest_build_api_url>>)
        ELSE IF artifacts = <<>>
             THEN Failed("no_artifacts", <<base_url, version_api_url, latest_build_api_url>>)
        ELSE Resolved(RStripSlash(latest_build_url) \o <<"/artifact/">> \o artifacts[1],
                      <<"pufferfish-server-">> \o version \o <<".jar">>,
                      <<base_url, version_api_url, latest_build_api_url>>)

\* lines 904-919
ResolvePurpur(version, up) ==
    LET info_url == <<versions_urls.purpur>> \o version
        has_latest == up.r[1] = "ok" /\ up.builds # <<>>
        latest_build == up.builds[Len(up.builds)]
    IN  IF version = <<>> THEN Failed("version_required", <<>>)
        ELSE IF up.r[1] \in NetBad THEN Failed("network", <<info_url>>)
        ELSE IF ~has_latest THEN Failed("no_latest_build", <<info_url>>)
        ELSE Resolved(<<"https://api.purpurmc.org/v2/purpur/">> \o version \o <<"/">>
                          \o Str(latest_build) \o <<"/download">>,
                      <<"purpur_server.">> \o version \o <<".jar">>,
                      <<info_url>>)

\* lines 922-943, 975-980, 988-993: the version substituted into a template
DirectUrl(server_type, version) ==
    CASE server_type = "spigot" ->
            <<"https://cdn.getbukkit.org/spigot/spigot-">> \o version \o <<".jar">>
      [] server_type = "quilt" ->
            <<"https://maven.quiltmc.org/repository/release/org/quiltmc/quilt-installer/">>
                \o version \o <<"/quilt-installer-">> \o version \o <<".jar">>
      [] server_type = "neoforge" ->
            <<"https://maven.neoforged.net/releases/net/neoforged/neoforge/">>
                \o version \o <<"/neoforge-">> \o version \o <<"-installer", ".jar">>
      [] server_type = "forge" ->
            <<"https://maven.minecraftforge.net/net/minecraftforge/forge/">>
                \o version \o <<"/forge-">> \o version \o <<"-installer", ".jar">>
      [] server_type = "bungeecord" ->
            <<"https://ci.md-5.net/job/BungeeCord/">> \o version
                \o <<"/artifact/bootstrap/target/BungeeCord", ".jar">>

DirectFileName(server_type, version) ==
    CASE server_type = "spigot" -> <<"spigot-">> \o version \o <<".jar">>
      [] server_type = "quilt" -> <<"quilt-installer-">> \o version \o <<".jar">>
      [] server_type = "neoforge" -> <<"neoforge-">> \o version \o <<"-installer", ".jar">>
      [] server_type = "forge" -> <<"forge-">> \o version \o <<"-installer", ".jar">>
      [] server_type = "bungeecord" -> <<"BungeeCord-">> \o version \o <<".jar">>

DirectProviders == {"spigot", "quilt", "neoforge", "forge", "bungeecord"}

\* the template filled in after a look at the provider's index
ResolveListed(server_type, version) ==
    IF version = <<>> THEN Failed("version_required", <<>>)
    ELSE Resolved(DirectUrl(server_type, version), DirectFileName(server_type, version),
                  <<DirectUrl(server_type, <<>>)>>)

\* lines 922-927, 930-935, 938-943, 975-980, 988-993
ResolveDirect(server_type, version) ==
    IF version = <<>> THEN Failed("version_required", <<>>)
    ELSE Resolved(DirectUrl(server_type, version), DirectFileName(server_type, version), <<>>)

\* the installer of the version asked for
ResolveFabricAsked(version, up) ==
    LET installer_url == <<versions_urls.fabric>>
    IN  IF up.r[1] \in NetBad THEN Failed("network", <<installer_url>>)
        ELSE IF up.r[1] = "nofield" \/ up.files = <<>>
             THEN Failed("unexpected", <<installer_url>>)
        ELSE Resolved(<<"https://maven.fabricmc.net/net/fabricmc/fabric-installer/">>
                          \o version \o <<"/fabric-installer-">> \o version \o <<".jar">>,
                      <<"fabric-installer-">> \o version \o <<".jar">>,
                      <<installer_url>>)

\* lines 946-953: installers[0]["version"], whatever version was asked for
ResolveFabric(version, up) ==
    LET installer_url == <<versions_urls.fabric>>
        installer_version == up.files[1]
    IN  IF up.r[1] \in NetBad THEN Failed("network", <<installer_url>>)
        ELSE IF up.r[1] = "nofield" \/ up.files = <<>>
             THEN Failed("unexpected", <<installer_url>>)
        ELSE Resolved(<<"https://maven.fabricmc.net/net/fabricmc/fabric-installer/">>
                          \o installer_version \o <<"/fabric-installer-">>
                          \o installer_version \o <<".jar">>,
                      <<"fabric-installer-">> \o installer_version \o <<".jar">>,
                      <<installer_url>>)

\* the last asset named *.phar, 0 when there is none
LastPhar(assets) ==
    IF \E i \in 1..Len(assets) : EndsWithPhar(assets[i])
    THEN CHOOSE i \in 1..Len(assets) :
            EndsWithPhar(assets[i]) /\ \A j \in (i + 1)..Len(assets) : ~EndsWithPhar(assets[j])
    ELSE 0

\* line 966: next((a for a in assets if a["name"].endswith(".phar")), None)
FirstPhar(assets) == FirstIndex(assets, EndsWithPhar)

\* lines 956-972
ResolvePocketmine(version, up) ==
    LET api_url == <<"https://api.github.com/repos/pmmp/PocketMine-MP/releases/tags/">> \o version
        assets == IF up.r[1] = "nofield" THEN <<>> ELSE up.files
        phar_asset == FirstPhar(assets)
    IN  IF version = <<>> THEN Failed("version_required", <<>>)
        ELSE IF up.r[1] \in NetBad THEN Failed("network", <<api_url>>)
        ELSE IF phar_asset = 0 THEN Failed("no_phar", <<api_url>>)
        ELSE Resolved(AssetUrl(version, assets[phar_asset]), assets[phar_asset], <<api_url>>)

\* lines 983-985
ResolveNukkit == Resolved(<<versions_urls.nukkit>>, <<"nukkit", ".jar">>, <<>>)

\* builds_data["builds"][0]
FirstBuild(builds) == builds[1]

\* builds_data["builds"][-1]
LastBuild(builds) == builds[Len(builds)]

\* lines 996-1007
ResolvePaperFamily(server_type, version, up) ==
    LET builds_url == <<versions_urls[server_type], "/versions/">> \o version
        latest_build == LastBuild(up.builds)
        file_name == <<server_type, "-">> \o version \o <<"-">> \o Str(latest_build) \o <<".jar">>
    IN  IF version = <<>> THEN Failed("version_required", <<>>)
        ELSE IF up.r[1] \in NetBad THEN Failed("network", <<builds_url>>)
        ELSE IF up.r[1] = "nofield" \/ up.builds = <<>>
             THEN Failed("unexpected", <<builds_url>>)
        ELSE Resolved(<<"https://api.papermc.io/v2/projects/", server_type, "/versions/">>
                          \o version \o <<"/builds/">> \o Str(latest_build)
                          \o <<"/downloads/">> \o file_name,
                      file_name,
                      <<builds_url>>)

\* lines 1010-1029
ResolveVanilla(version, up) ==
    LET manifest_url == <<versions_urls.vanilla>>
        version_info == FindVersion(up.versions, version)
        version_json_url == VersionJsonUrl(up.versions[version_info])
    IN  IF version = <<>> THEN Failed("version_required", <<>>)
        ELSE IF up.r[1] \in NetBad THEN Failed("network", <<manifest_url>>)
        ELSE IF up.r[1] = "nofield" THEN Failed("unexpected", <<manifest_url>>)
        ELSE IF version_info = 0 THEN Failed("version_not_found", <<manifest_url>>)
        ELSE IF up.r[2] \in NetBad THEN Failed("network", <<manifest_url, version_json_url>>)
        ELSE IF up.r[2] = "nofield" THEN Failed("unexpected", <<manifest_url, version_json_url>>)
        ELSE Resolved(ServerJarUrl(version),
                      <<"minecraft_server.">> \o version \o <<".jar">>,
                      <<manifest_url, version_json_url>>)

\* lines 857-1029: the chain of recipes
Resolve(server_type, version, up) ==
    IF server_type \notin Providers THEN Failed("unknown_type", <<>>)
    ELSE IF server_type = "pufferfish" THEN ResolvePufferfish(version, up)
    ELSE IF server_type = "purpur" THEN ResolvePurpur(version, up)
    ELSE IF server_type \in DirectProviders THEN ResolveDirect(server_type, version)
    ELSE IF server_type = "fabric" THEN ResolveFabric(version, up)
    ELSE IF server_type = "pocketmine-mp" THEN ResolvePocketmine(version, up)
    ELSE IF server_type = "nukkit" THEN ResolveNukkit
    ELSE IF server_type \in PaperFamily THEN ResolvePaperFamily(server_type, version, up)
    ELSE ResolveVanilla(version, up)

\* download_server_jar(server_type, version, dest_folder) against an upstream:
\*   ok         a path is returned (FALSE: False is returned)
\*   path       dest_folder / file_name
\*   wrote      the file was opened for writing in dest_folder
\*   complete   every chunk was written
download_server_jar(server_type, version, dest_folder, up) ==
    LET res == Resolve(server_type, version, up)
        sent == Append(res.sent, res.url)
        none == [ok |-> FALSE, path |-> <<>>, diag |-> res.diag, url |-> res.url,
                 file_name |-> res.file_name, sent |-> res.sent,
                 wrote |-> FALSE, complete |-> FALSE]
    IN  IF ~res.resolved THEN none
        ELSE IF up.dl \in {"transport", "status"}
             THEN [none EXCEPT !.diag = "network", !.sent = sent]
        ELSE IF up.dl = "midstream"
             THEN [none EXCEPT !.diag = "network", !.sent = sent, !.wrote = TRUE]
        ELSE [ok |-> TRUE, path |-> dest_folder \o res.file_name, diag |-> "none",
              url |-> res.url, file_name |-> res.file_name, sent |-> sent,
              wrote |-> TRUE, complete |-> TRUE]

(***************************************************************************)
(* The upstreams download_server_jar is run against.                       *)
(***************************************************************************)
\* the versions a caller asks for: none, and one the upstream may or may not know
RequestedVersions == {<<>>, V1_20_1}

UpVersionLists == {<<>>, <<V1_20_4>>, <<V1_20_4, V1_20_1>>, <<V1_20_1, V1_20_4>>}

BuildLists == SeqsUpTo({7, 8}, MaxBuilds)

ArtifactPaths == {<<"build/libs/pufferfish-paperclip", ".jar">>, <<"build/libs/sources", ".jar">>}
AssetNames == {<<"PocketMine-MP", ".phar">>, <<"PocketMine-MP-dev", ".phar">>, <<"build_info", ".json">>}
InstallerVersions == {<<"1", ".", "0", ".", "1">>, <<"0", ".", "1", "1", ".", "2">>}

FileLists(server_type) ==
    CASE server_type = "pufferfish" -> SeqsUpTo(ArtifactPaths, MaxBuilds)
      [] server_type = "pocketmine-mp" -> SeqsUpTo(AssetNames, MaxBuilds)
      [] server_type = "fabric" -> SeqsUpTo(InstallerVersions, MaxBuilds)
      [] OTHER -> {<<>>}

\* the number of metadata requests of a recipe
MetaRequests(server_type) ==
    CASE server_type = "pufferfish" -> 3
      [] server_type = "vanilla" -> 2
      [] server_type \in PaperFamily \cup {"purpur", "fabric", "pocketmine-mp"} -> 1
      [] OTHER -> 0

\* The answers to a call's requests: the first request that is not answered
\* "ok" ends the call, so the answers after it are never seen and are left "ok".
ReplyPlans(n) ==
    {[r |-> <<"ok", "ok", "ok">>, dl |-> dl] : dl \in {"ok", "transport", "status", "midstream"}}
    \cup {[r |-> [i \in 1..3 |-> IF i = k THEN bad ELSE "ok"], dl |-> "ok"] :
             k \in 1..n, bad \in NetBad \cup {"nofield"}}

\* the requested version exists upstream
Exists(version, up) == version \in Range(up.versions)

\* the recipes that ask the upstream about the requested version before the
\* download: an index that lists it (vanilla, pufferfish) or an endpoint of
\* that version (purpur, pocketmine-mp, the paper family)
IndexProviders == {"vanilla", "pufferfish"}
EndpointProviders == PaperFamily \cup {"purpur", "pocketmine-mp"}

\* An upstream answers a request for something it does not have with an
\* error, never with a 2xx response of the expected shape: the endpoint of
\* an unknown version, and the download URL built from an unknown version.
Coherent(server_type, version, up) ==
    Exists(version, up)
    \/ /\ server_type \in EndpointProviders => up.r[1] # "ok"
       /\ server_type \in DirectProviders => up.dl \in {"transport", "status"}

Upstreams(server_type, version) ==
    {up \in {Upstream(versions, builds, files, plan.r, plan.dl) :
                versions \in UpVersionLists,
                builds \in (IF server_type \in PaperFamily \cup {"purpur", "pufferfish"}
                            THEN BuildLists ELSE {<<>>}),
                files \in FileLists(server_type),
                plan \in ReplyPlans(MetaRequests(server_type))} :
        Coherent(server_type, version, up)}

(***************************************************************************)
(* Files and directories.                                                  *)
(***************************************************************************)
\* a file: its name, what it holds (for a download: the URL it was streamed
\* from) and its size
File(name, data, size) == [name |-> name, data |-> data, size |-> size]

\* a directory: whether it exists and the files in it
Dir(exists, files) == [exists |-> exists, files |-> files]

FileNames(dir) == {f.name : f \in dir.files}

\* open(name, "w") and write: the file is created or replaced
WriteFile(dir, file) ==
    Dir(dir.exists, {f \in dir.files : f.name # file.name} \cup {file})

\* a file that holds the path it was written to
DownloadedStamped(out) ==
    File(out.file_name, out.path, IF out.complete THEN FullSize ELSE PartSize)

\* the file download_server_jar leaves in dest_folder: every chunk of the
\* body, or the chunks received before the stream broke
Downloaded(out) ==
    File(out.file_name, out.url, IF out.complete THEN FullSize ELSE PartSize)

\* dest_folder made only when a file is written into it
AfterDownloadNoMkdir(dir, out) ==
    IF out.wrote THEN WriteFile(Dir(TRUE, dir.files), Downloaded(out)) ELSE dir

\* the file opened as soon as the download request is sent
AfterDownloadOpened(dir, out) ==
    IF out.url # <<>> /\ out.url \in Range(out.sent)
    THEN WriteFile(Dir(TRUE, dir.files), Downloaded(out))
    ELSE Dir(TRUE, dir.files)

\* dest_folder after download_server_jar: made if absent (line 854), the
\* file written once the response has passed raise_for_status (1038-1042)
AfterDownload(dir, out) ==
    IF out.wrote THEN WriteFile(Dir(TRUE, dir.files), Downloaded(out))
    ELSE Dir(TRUE, dir.files)

(***************************************************************************)
(* run_installer.                                                          *)
(***************************************************************************)
\* the installers that take --installServer
ForgeFamily == {"forge", "neoforge"}

\* line 504
InstallerSoftware == {"forge", "fabric", "neoforge", "quilt"}

\* the last component of a path: the tokens after the last "/"
RECURSIVE BaseName(_)
BaseName(path) ==
    IF \E i \in 1..Len(path) : path[i] = "/"
    THEN BaseName(SubSeq(path, 1 + (CHOOSE i \in 1..Len(path) : path[i] = "/"), Len(path)))
    ELSE path

\* Path.suffix of a name: its last token when that is an extension
Suffix(path) ==
    IF Len(path) > 0 /\ path[Len(path)] \in {".jar", ".phar", ".json", ".zip", ".txt", ".bat"}
    THEN path[Len(path)] ELSE ""

\* Path.stem: the name without its suffix
Stem(path) ==
    LET name == BaseName(path)
    IN  IF Suffix(name) # "" THEN SubSeq(name, 1, Len(name) - 1) ELSE name

\* word in text.lower(), for the words run_installer looks for: the tokens
\* of the model's file names that hold the word
Mentions(text, word) ==
    \E i \in 1..Len(text) :
        text[i] \in (CASE word = "forge" -> {"forge-", "neoforge-"}
                       [] word = "neoforge" -> {"neoforge-"}
                       [] word = "fabric" -> {"fabric-installer-", "fabric-server-launch"}
                       [] word = "quilt" -> {"quilt-installer-", "quilt-server-launch"}
                       [] word = "installer" ->
                            {"-installer", "fabric-installer-", "quilt-installer-"})

\* What the child process does: its exit ("zero", "nonzero": check=True
\* raises CalledProcessError; "oserror": java cannot be started) and the
\* files it leaves in the target folder.
Installer(exit, made) == [exit |-> exit, made |-> made]

InstallerFailed(ran) == [result |-> "False", path |-> <<>>, ran |-> ran]

\* the target folder once the child process has left its files in it
Installed(dir, env) ==
    Dir(TRUE, {f \in dir.files : f.name \notin {m.name : m \in env.made}} \cup env.made)

\* every *.jar of the target folder
AllJars(dir) == {f \in dir.files : Suffix(f.name) = ".jar"}

\* target_folder.glob("*.jar") without the names that hold "installer"
CandidateJars(dir) ==
    {f \in dir.files : Suffix(f.name) = ".jar" /\ ~Mentions(f.name, "installer")}

\* no branch tests mc_version
NeedsNoVersion(software_name) == FALSE

\* lines 1087-1101: the fabric and quilt branches test mc_version; the forge
\* branch, which neoforge installers take as well, does not
NeedsMcVersion(software_name) == ~Mentions(software_name, "forge")

\* the exit of the child process is not looked at
ChildIgnored(env) == FALSE

\* check=True: a nonzero exit raises CalledProcessError; a child process
\* that cannot be started raises OSError
ChildFailed(env) == env.exit # "zero"

\* no installer answers with the sentinel
NeverSentinel(software_name) == FALSE

\* lines 1117-1118
ReturnsSentinel(software_name) == Mentions(software_name, "neoforge")

\* output_exec_path returned only if the file is there
CheckedOutput(path, dir) ==
    IF BaseName(path) \in FileNames(dir)
    THEN {[result |-> "Path", path |-> path, ran |-> TRUE]}
    ELSE {InstallerFailed(TRUE)}

\* line 1130: return output_exec_path
FixedOutput(path, dir) == {[result |-> "Path", path |-> path, ran |-> TRUE]}

\* The outcomes of run_installer(installer_path, target_folder, mc_version)
\* in a target folder dir with a child process env: result "False", "True"
\* or "Path" (with path), and whether the child process was started (ran).
\* max(candidate_jars, key=os.path.getsize) returns the first of glob's
\* order among the largest, so every largest candidate is an outcome.
run_installer(installer_path, target_folder, mc_version, dir, env) ==
    LET software_name == Stem(installer_path)
        after == Installed(dir, env)
        candidate_jars == CandidateJars(after)
    IN  IF ~(dir.exists /\ BaseName(installer_path) \in FileNames(dir))
        THEN {InstallerFailed(FALSE)}
        ELSE IF ~Mentions(software_name, "forge") /\ ~Mentions(software_name, "neoforge")
                /\ ~Mentions(software_name, "fabric") /\ ~Mentions(software_name, "quilt")
        THEN {InstallerFailed(FALSE)}
        ELSE IF NeedsMcVersion(software_name) /\ mc_version = <<>>
        THEN {InstallerFailed(FALSE)}
        ELSE IF ChildFailed(env) THEN {InstallerFailed(TRUE)}
        ELSE IF ReturnsSentinel(software_name)
        THEN {[result |-> "True", path |-> <<>>, ran |-> TRUE]}
        ELSE IF Mentions(software_name, "forge")
        THEN IF candidate_jars = {} THEN {InstallerFailed(TRUE)}
             ELSE {[result |-> "Path", path |-> target_folder \o f.name, ran |-> TRUE] :
                      f \in {c \in candidate_jars :
                                \A o \in candidate_jars : o.size <= c.size}}
        ELSE IF Mentions(software_name, "fabric")
        THEN FixedOutput(target_folder \o <<"fabric-server-launch", ".jar">>, after)
        ELSE FixedOutput(target_folder \o <<"quilt-server-launch", ".jar">>, after)

\* the target folder after run_installer: the child process, when started,
\* has left its files
AfterInstaller(dir, env, out) == IF out.ran THEN Installed(dir, env) ELSE dir

(***************************************************************************)
(* State.                                                                  *)
(***************************************************************************)
VARIABLES
    fpc,        \* fetch_versions: "call" before the call, "done" after it
    fSoftware,  \* its argument
    fResp,      \* the upstream's answer to its request
    fOut,       \* what it did: versions, requests, raised
    dpc,        \* download_server_jar: "call" before the call, "done" after it
    dType,      \* its arguments server_type
    dVersion,   \*   and version
    dUp,        \* the upstream it runs against
    dDir,       \* dest_folder: exists, and the files in it
    dDir0,      \* dest_folder as it was when the call began
    dOut,       \* what it did
    cpc,        \* create_server: where the worker thread is
    cMcVersion, \* its argument mc_version (<<>> for None)
    cEnv,       \* what the installer's child process will do
    cInst,      \* what run_installer returned
    cExec,      \* server_exec_path
    cTrace,     \* the stages the worker has run, in order
    queue,      \* self.queue: the messages put and not yet taken
    ipc,        \* run_installer: "call" before the call, "done" after it
    iPath,      \* its arguments installer_path
    iMcVersion, \*   and mc_version (<<>> for None or "")
    iDir,       \* target_folder: exists, and the files in it
    iEnv,       \* what the child process will do
    iOut,       \* what it returned, and whether the child process was started
    gBtn,       \* create_btn is enabled
    gFetchBtn,  \* fetch_versions_btn is enabled
    gCombo,     \* version_combo is enabled
    gSoftware,  \* the software selected in software_combo ("" for none)
    gValues,    \* the software the values of version_combo were fetched for
    gVersion,   \* the software the selected version was fetched for
    gWorkers,   \* the creation workers that run: id, arguments, position
    gFetching,  \* the fetch workers that run: id, software
    gQueue,     \* self.queue as the window sees it
    gDirs,      \* the names of the server directories that exist
    gTree,      \* the names server_tree lists
    gFailed,    \* the failed creations whose directory was not deleted since
    gWarning,   \* the name the last already-exists warning was for
    gPolling,   \* process_queue is scheduled
    gRaised,    \* a handler of process_queue has raised
    gStarted,   \* creation workers started so far
    gFetched    \* fetch workers started so far

fetchVars == <<fpc, fSoftware, fResp, fOut>>
downloadVars == <<dpc, dType, dVersion, dUp, dDir, dDir0, dOut>>
createVars == <<cpc, cMcVersion, cEnv, cInst, cExec, cTrace, queue>>
installVars == <<ipc, iPath, iMcVersion, iDir, iEnv, iOut>>
guiVars ==
    <<gBtn, gFetchBtn, gCombo, gSoftware, gValues, gVersion, gWorkers, gFetching, gQueue,
      gDirs, gTree, gFailed, gWarning, gPolling, gRaised, gStarted, gFetched>>
vars == <<fetchVars, downloadVars, createVars, installVars, guiVars>>

NoFetch == [versions |-> <<>>, requests |-> 0, raised |-> "no"]

NoDownload ==
    [ok |-> FALSE, path |-> <<>>, diag |-> "none", url |-> <<>>, file_name |-> <<>>,
     sent |-> <<>>, wrote |-> FALSE, complete |-> FALSE]

NoUpstream == Upstream(<<>>, <<>>, <<>>, <<"ok", "ok", "ok">>, "ok")

NoInstaller == Installer("zero", {})

NotInstalled == [result |-> "none", path |-> <<>>, ran |-> FALSE]

\* the window as built: the controls enabled, nothing selected, no server
\* there, nothing running, process_queue scheduled (151)
GuiIdle ==
    /\ gBtn = TRUE
    /\ gFetchBtn = TRUE
    /\ gCombo = TRUE
    /\ gSoftware = ""
    /\ gValues = ""
    /\ gVersion = ""
    /\ gWorkers = {}
    /\ gFetching = {}
    /\ gQueue = <<>>
    /\ gDirs = {}
    /\ gTree = {}
    /\ gFailed = {}
    /\ gWarning = ""
    /\ gPolling = TRUE
    /\ gRaised = FALSE
    /\ gStarted = 0
    /\ gFetched = 0

InstallIdle ==
    /\ ipc = "idle"
    /\ iPath = <<>>
    /\ iMcVersion = <<>>
    /\ iDir = Dir(FALSE, {})
    /\ iEnv = NoInstaller
    /\ iOut = NotInstalled

CreateIdle ==
    /\ cpc = "idle"
    /\ cMcVersion = <<>>
    /\ cEnv = NoInstaller
    /\ cInst = NotInstalled
    /\ cExec = <<>>
    /\ cTrace = <<>>
    /\ queue = <<>>

FetchIdle ==
    /\ fpc = "idle"
    /\ fSoftware = "nukkit"
    /\ fResp = Response("ok", TRUE, TRUE, TRUE, <<>>)
    /\ fOut = NoFetch

DownloadIdle ==
    /\ dpc = "idle"
    /\ dType = "nukkit"
    /\ dVersion = <<>>
    /\ dUp = NoUpstream
    /\ dDir = Dir(FALSE, {})
    /\ dDir0 = dDir
    /\ dOut = NoDownload

(***************************************************************************)
(* SpecFetch: fetch_versions applied to every provider and every answer.   *)
(***************************************************************************)
InitFetch ==
    /\ fpc = "call"
    /\ fSoftware \in Providers \cup {UnknownSoftware}
    /\ fResp \in FetchResponses(fSoftware)
    /\ fOut = NoFetch
    /\ DownloadIdle
    /\ CreateIdle
    /\ InstallIdle
    /\ GuiIdle

FetchVersions ==
    /\ fpc = "call"
    /\ fOut' = fetch_versions(fSoftware, fResp)
    /\ fpc' = "done"
    /\ UNCHANGED <<fSoftware, fResp>>
    /\ UNCHANGED <<downloadVars, createVars, installVars, guiVars>>

NextFetch == FetchVersions

SpecFetch == InitFetch /\ [][NextFetch]_vars

(***************************************************************************)
(* SpecDownload: download_server_jar applied to every provider, requested  *)
(* version and upstream, into a directory that exists or not.              *)
(***************************************************************************)
DestFolder == <<"servers/", "survival", "/">>

\* files that may be in dest_folder before the call: one that no download
\* is named like, and one left under the name spigot's download will take
EulaFile == File(<<"eula", ".txt">>, <<"eula=true">>, PartSize)
StaleJar == File(<<"spigot-">> \o V1_20_1 \o <<".jar">>, <<"stale">>, PartSize)

DestFolders == {Dir(FALSE, {}), Dir(TRUE, {}), Dir(TRUE, {EulaFile}), Dir(TRUE, {StaleJar})}

InitDownload ==
    /\ dpc = "call"
    /\ dType \in Providers \cup {UnknownSoftware}
    /\ dVersion \in RequestedVersions
    /\ dUp \in Upstreams(dType, dVersion)
    /\ dDir \in DestFolders
    /\ dDir0 = dDir
    /\ dOut = NoDownload
    /\ FetchIdle
    /\ CreateIdle
    /\ InstallIdle
    /\ GuiIdle

\* dest_folder.mkdir(parents=True, exist_ok=True), then the try block; the
\* file is opened "wb" under the resolved name
DownloadServerJar ==
    /\ dpc = "call"
    /\ LET out == download_server_jar(dType, dVersion, DestFolder, dUp)
       IN  /\ dOut' = out
           /\ dDir' = AfterDownload(dDir, out)
    /\ dpc' = "done"
    /\ UNCHANGED <<dType, dVersion, dUp, dDir0>>
    /\ UNCHANGED <<fetchVars, createVars, installVars, guiVars>>

NextDownload == DownloadServerJar

SpecDownload == InitDownload /\ [][NextDownload]_vars

(***************************************************************************)
(* SpecAcquire: one call of either network function, fetch_versions or     *)
(* download_server_jar.                                                    *)
(***************************************************************************)
InitAcquire == InitFetch \/ InitDownload

NextAcquire == FetchVersions \/ DownloadServerJar

SpecAcquire == InitAcquire /\ [][NextAcquire]_vars

(***************************************************************************)
(* SpecCreate: the worker thread of create_server, started by              *)
(* create_server_threaded with the arguments it lets through: a server     *)
(* directory that does not exist, a version unless the software is nukkit, *)
(* and a Minecraft version for fabric and quilt only.  The software is     *)
(* dType (software.lower()), the version dVersion, the server directory    *)
(* dDir; the download runs against the upstream dUp.                       *)
(***************************************************************************)
Msg(type, text) == [type |-> type, text |-> text]

Put(q, msgs) == q \o msgs

\* what the installers leave in the server directory
ForgeJar == File(<<"forge-">> \o V1_20_1 \o <<"-shim", ".jar">>, <<"forge shim">>, 2)
ServerJar == File(<<"minecraft_server.">> \o V1_20_1 \o <<".jar">>, <<"minecraft server">>, 3)
LibraryJar == File(<<"libraries", ".jar">>, <<"libraries">>, 3)
LaunchJar(loader) == File(<<loader \o "-server-launch", ".jar">>, <<"launcher">>, 2)
JvmArgs == File(<<"user_jvm_args", ".txt">>, <<"jvm args">>, 1)

InstallerEnvs(software) ==
    IF software \notin InstallerSoftware THEN {NoInstaller}
    ELSE {Installer(exit, made) :
            exit \in {"zero", "nonzero", "oserror"},
            made \in (CASE software = "forge" ->
                             {{}, {ForgeJar}, {ForgeJar, ServerJar}, {ServerJar, LibraryJar}}
                        [] software = "neoforge" -> {{}, {JvmArgs}}
                        [] OTHER -> {{}, {LaunchJar(software)}})}

InitCreate ==
    /\ cpc = "start"
    /\ dpc = "idle"
    /\ dType \in Providers
    /\ dVersion \in (IF dType = "nukkit" THEN RequestedVersions ELSE RequestedVersions \ {<<>>})
    /\ cMcVersion = (IF dType \in {"fabric", "quilt"} THEN V1_20_1 ELSE <<>>)
    /\ dUp \in Upstreams(dType, dVersion)
    /\ dDir = Dir(FALSE, {})
    /\ dDir0 = dDir
    /\ dOut = NoDownload
    /\ cEnv \in InstallerEnvs(dType)
    /\ cInst = NotInstalled
    /\ cExec = <<>>
    /\ cTrace = <<>>
    /\ queue = <<>>
    /\ FetchIdle
    /\ InstallIdle
    /\ GuiIdle

\* the next stage, whatever the last one did
RunOn(failed, stage) == stage

\* lines 494-496 and 508-510: the return after a failed stage leaves only
\* the finally clause to run
Continue(failed, stage) == IF failed THEN "finally" ELSE stage

\* lines 479-491: the directory, eula.txt, the first messages
CreateStart ==
    /\ cpc = "start"
    /\ dDir' = WriteFile(Dir(TRUE, dDir.files), File(<<"eula", ".txt">>, <<"eula=true">>, 1))
    /\ cTrace' = cTrace \o <<"mkdir", "eula">>
    /\ queue' = Put(queue, <<Msg("log", "eula"), Msg("progress", "10"), Msg("log", "downloading")>>)
    /\ cpc' = "download"
    /\ UNCHANGED <<dpc, dType, dVersion, dUp, dDir0, dOut, cMcVersion, cEnv, cInst, cExec>>
    /\ UNCHANGED <<fetchVars, installVars, guiVars>>

\* lines 492-501: download_server_jar, and the return when it failed
CreateDownload ==
    /\ cpc = "download"
    /\ LET out == download_server_jar(dType, dVersion, DestFolder, dUp)
       IN  /\ dOut' = out
           /\ dDir' = AfterDownload(dDir, out)
           /\ cTrace' = Append(cTrace, "download")
           /\ IF ~out.ok
              THEN /\ queue' = Put(queue, <<Msg("error", "download")>>)
                   /\ cExec' = cExec
              ELSE /\ queue' = Put(queue, <<Msg("progress", "40"), Msg("log", "downloaded")>>)
                   /\ cExec' = out.path
           /\ cpc' = Continue(~out.ok,
                              IF dType \in InstallerSoftware THEN "installer" ELSE "script")
    /\ UNCHANGED <<dpc, dType, dVersion, dUp, dDir0, cMcVersion, cEnv, cInst>>
    /\ UNCHANGED <<fetchVars, installVars, guiVars>>

\* lines 504-515: run_installer for forge, fabric, neoforge and quilt
CreateInstall ==
    /\ cpc = "installer"
    /\ \E out \in run_installer(dOut.path, DestFolder, cMcVersion, dDir, cEnv) :
          /\ cInst' = out
          /\ dDir' = AfterInstaller(dDir, cEnv, out)
          /\ cTrace' = Append(cTrace, "installer")
          /\ IF out.result = "False"
             THEN /\ queue' = Put(queue, <<Msg("log", "running installer"),
                                           Msg("error", "installer")>>)
                  /\ cExec' = cExec
             ELSE IF out.result = "Path"
             THEN /\ queue' = Put(queue, <<Msg("log", "running installer"),
                                           Msg("log", "installer completed"),
                                           Msg("progress", "70")>>)
                  /\ cExec' = out.path
             ELSE /\ queue' = Put(queue, <<Msg("log", "running installer"),
                                           Msg("progress", "70")>>)
                  /\ cExec' = cExec
          /\ cpc' = Continue(out.result = "False", "script")
    /\ UNCHANGED <<dpc, dType, dVersion, dUp, dDir0, dOut, cMcVersion, cEnv>>
    /\ UNCHANGED <<fetchVars, installVars, guiVars>>

\* only .jar executables get a start script
TemplateJarOnly(software, exec) ==
    IF Suffix(exec) = ".jar"
    THEN (IF software = "neoforge" THEN "neoforge" ELSE "jar")
    ELSE "none"

\* lines 521-527: the launch template chosen by the executable's suffix;
\* "none" when it is neither .jar nor .phar
Template(software, exec) ==
    IF Suffix(exec) = ".jar"
    THEN (IF software = "neoforge" THEN "neoforge" ELSE "jar")
    ELSE IF Suffix(exec) = ".phar" THEN "phar"
    ELSE "none"

\* the text of start.bat: create_start_script, create_start_script_neoforge,
\* create_start_script_pocketmine
StartScript(template, version, exec) ==
    CASE template = "jar" -> <<"java", "-jar">> \o BaseName(exec) \o <<"nogui">>
      [] template = "neoforge" ->
            <<"java", "@user_jvm_args.txt", "@libraries/net/neoforged/neoforge/">>
                \o version \o <<"/win_args.txt", "nogui">>
      [] template = "phar" -> <<"php">> \o BaseName(exec)

\* lines 517-550: the start script, server.properties, the closing messages
CreateScript ==
    /\ cpc = "script"
    /\ LET template == Template(dType, cExec)
           scripted == IF template = "none" THEN dDir
                       ELSE WriteFile(dDir, File(<<"start", ".bat">>,
                                                 StartScript(template, dVersion, cExec), 1))
       IN  /\ dDir' = WriteFile(scripted, File(<<"server", ".properties">>,
                                               <<"software=", dType, "version=">> \o
                                               (IF dVersion = <<>> THEN <<"latest">> ELSE dVersion),
                                               1))
           /\ cTrace' = cTrace \o (IF template = "none" THEN <<>> ELSE <<"script">>)
                               \o <<"properties">>
           /\ queue' = Put(queue,
                           <<Msg("log", "creating start script")>>
                           \o (IF template = "none" THEN <<Msg("log", "no start script")>>
                               ELSE <<>>)
                           \o <<Msg("progress", "90"), Msg("progress", "100"),
                                Msg("log", "setup complete"), Msg("success", "created"),
                                Msg("open_folder", "server_path"),
                                Msg("start_server", "server_path"),
                                Msg("load_server_list", "")>>)
    /\ cpc' = "finally"
    /\ UNCHANGED <<dpc, dType, dVersion, dUp, dDir0, dOut, cMcVersion, cEnv, cInst, cExec>>
    /\ UNCHANGED <<fetchVars, installVars, guiVars>>

\* lines 552-553: the except clause.  What can raise inside the try block
\* apart from the two calls that catch their own exceptions: mkdir (479-480),
\* the write of eula.txt (483-484), the start script functions (int(ram_mb),
\* write_text) and the write of server.properties (535-537).
CreateRaise ==
    /\ \/ /\ cpc = "start"
          /\ \/ /\ dDir' = dDir
                /\ cTrace' = cTrace
             \/ /\ dDir' = Dir(TRUE, dDir.files)
                /\ cTrace' = Append(cTrace, "mkdir")
          /\ queue' = Put(queue, <<Msg("error", "exception")>>)
       \/ /\ cpc = "script"
          /\ LET template == Template(dType, cExec)
             IN  \/ /\ dDir' = dDir
                    /\ cTrace' = cTrace
                    /\ queue' = Put(queue, <<Msg("log", "creating start script"),
                                             Msg("error", "exception")>>)
                 \/ /\ template # "none"
                    /\ dDir' = WriteFile(dDir, File(<<"start", ".bat">>,
                                                    StartScript(template, dVersion, cExec), 1))
                    /\ cTrace' = Append(cTrace, "script")
                    /\ queue' = Put(queue, <<Msg("log", "creating start script"),
                                             Msg("progress", "90"),
                                             Msg("error", "exception")>>)
    /\ cpc' = "finally"
    /\ UNCHANGED <<dpc, dType, dVersion, dUp, dDir0, dOut, cMcVersion, cEnv, cInst, cExec>>
    /\ UNCHANGED <<fetchVars, installVars, guiVars>>

\* a finally clause that puts nothing
FinallyNothing == <<>>

\* line 555: what the finally clause puts
FinallyMessages == <<Msg("enable_create_ui", "")>>

\* lines 554-555: the finally clause
CreateFinally ==
    /\ cpc = "finally"
    /\ queue' = Put(queue, FinallyMessages)
    /\ cpc' = "done"
    /\ UNCHANGED <<dpc, dType, dVersion, dUp, dDir0, dDir, dOut, cMcVersion, cEnv, cInst, cExec, cTrace>>
    /\ UNCHANGED <<fetchVars, installVars, guiVars>>

NextCreate ==
    \/ CreateStart
    \/ CreateDownload
    \/ CreateInstall
    \/ CreateScript
    \/ CreateRaise
    \/ CreateFinally

SpecCreate == InitCreate /\ [][NextCreate]_vars

(***************************************************************************)
(* SpecInstall: run_installer called on its own, with any installer path,  *)
(* with or without mc_version, in a target folder that may or may not hold *)
(* the installer file and other files, and with a child process that exits *)
(* with zero, exits with nonzero or cannot be started.                     *)
(***************************************************************************)
\* the installers download_server_jar leaves, and a jar that is no installer
InstallerPaths ==
    {DestFolder \o name :
        name \in {DirectFileName("forge", V1_20_1), DirectFileName("neoforge", V1_20_1),
                  DirectFileName("quilt", V1_20_1),
                  <<"fabric-installer-", "1", ".", "0", ".", "1", ".jar">>,
                  DirectFileName("spigot", V1_20_1)}}

\* an older installer left in the folder, larger than anything else in it
OldInstaller == File(<<"forge-", "1", ".", "1", "9", "-installer", ".jar">>, <<"old installer">>, OldSize)

\* what the target folder holds before the call, the installer file apart
FolderFiles == {{}, {LibraryJar}, {OldInstaller}, {JvmArgs, LaunchJar("fabric")}}

ChildProcesses ==
    {Installer(exit, made) :
        exit \in {"zero", "nonzero", "oserror"},
        made \in {{}, {ForgeJar}, {ForgeJar, ServerJar}, {ServerJar, LibraryJar},
                  {JvmArgs}, {LaunchJar("fabric")}, {LaunchJar("quilt")}}}

InitInstall ==
    /\ ipc = "call"
    /\ iPath \in InstallerPaths
    /\ iMcVersion \in {<<>>, V1_20_1}
    /\ iDir \in {Dir(FALSE, {})}
                \cup {Dir(TRUE, files) : files \in FolderFiles}
                \cup {Dir(TRUE, files \cup {File(BaseName(iPath), <<"installer">>, FullSize)}) :
                         files \in FolderFiles}
    /\ iEnv \in ChildProcesses
    /\ iOut = NotInstalled
    /\ FetchIdle
    /\ DownloadIdle
    /\ CreateIdle
    /\ GuiIdle

RunInstaller ==
    /\ ipc = "call"
    /\ \E out \in run_installer(iPath, DestFolder, iMcVersion, iDir, iEnv) :
          /\ iOut' = out
          /\ iDir' = AfterInstaller(iDir, iEnv, out)
    /\ ipc' = "done"
    /\ UNCHANGED <<iPath, iMcVersion, iEnv>>
    /\ UNCHANGED <<fetchVars, downloadVars, createVars, guiVars>>

NextInstall == RunInstaller

SpecInstall == InitInstall /\ [][NextInstall]_vars

(***************************************************************************)
(* SpecGui: the window.  The user selects a software, picks a version,     *)
(* presses Fetch Versions, Create Server, Refresh List and Delete Server   *)
(* in any order; the fetch and creation workers run beside the main thread *)
(* and talk to it through self.queue only; process_queue takes the         *)
(* messages one by one on the main thread.  The log, progress and status   *)
(* messages change nothing that is modelled here and are left out.         *)
(***************************************************************************)
ServerNames == {"survival", "creative"}

\* two of SOFTWARE_OPTIONS: one that needs a version, one that does not
GuiSoftware == {"Paper", "Nukkit"}

\* software.lower()
Lower(software) ==
    CASE software = "Paper" -> "paper"
      [] software = "Nukkit" -> "nukkit"
      [] OTHER -> software

\* a creation worker: the arguments of create_server that matter here (the
\* version is named by the software it was fetched for) and where it is
Worker(id, name, software, version, pc) ==
    [id |-> id, name |-> name, software |-> software, version |-> version, pc |-> pc]

\* a fetch worker: the argument of PlayPort.fetch_versions
Fetcher(id, software) == [id |-> id, software |-> software]

\* the button left enabled by a click
ButtonStays(btn) == btn

\* line 460: self.create_btn.config(state=tk.DISABLED)
CreateClicked(btn) == FALSE

\* a name test that sees no directory
NeverExists(name, dirs) == FALSE

\* line 433: (SERVERS_DIR / name).exists()
DirExists(name, dirs) == name \in dirs

\* a loop that ends with the handler that raised
RescheduledUnlessRaised(raised) == ~raised

\* lines 734-737: the except clause is inside the loop and self.after comes
\* after it, so process_queue goes on whether or not a handler raised
Rescheduled(raised) == TRUE

\* the handlers of process_queue that reach the file system or start a process
Fallible == {"open_folder", "start_server", "load_server_list"}

\* a creation that failed: whether its directory was there when it failed
FailedCreation(name, made) == [name |-> name, made |-> made]

InitGui ==
    /\ GuiIdle
    /\ FetchIdle
    /\ DownloadIdle
    /\ CreateIdle
    /\ InstallIdle

\* on_software_select, lines 383-394: the selection in version_combo is
\* cleared, its values are not; software_combo is enabled with create_btn
\* (462, 717)
SelectSoftware ==
    /\ gBtn
    /\ \E software \in GuiSoftware : gSoftware' = software
    /\ gVersion' = ""
    /\ UNCHANGED <<gBtn, gFetchBtn, gCombo, gValues, gWorkers, gFetching, gQueue, gDirs,
                   gTree, gFailed, gWarning, gPolling, gRaised, gStarted, gFetched>>
    /\ UNCHANGED <<fetchVars, downloadVars, createVars, installVars>>

\* the user picks one of the values version_combo offers
PickVersion ==
    /\ gCombo
    /\ gValues # ""
    /\ gVersion' = gValues
    /\ UNCHANGED <<gBtn, gFetchBtn, gCombo, gSoftware, gValues, gWorkers, gFetching, gQueue,
                   gDirs, gTree, gFailed, gWarning, gPolling, gRaised, gStarted, gFetched>>
    /\ UNCHANGED <<fetchVars, downloadVars, createVars, installVars>>

\* fetch_versions_threaded, lines 396-407
ClickFetch ==
    /\ gFetchBtn
    /\ gSoftware # ""
    /\ gFetched < MaxFetches
    /\ gFetchBtn' = FALSE
    /\ gCombo' = FALSE
    /\ gFetching' = gFetching \cup {Fetcher(gFetched + 1, gSoftware)}
    /\ gFetched' = gFetched + 1
    /\ UNCHANGED <<gBtn, gSoftware, gValues, gVersion, gWorkers, gQueue, gDirs, gTree,
                   gFailed, gWarning, gPolling, gRaised, gStarted>>
    /\ UNCHANGED <<fetchVars, downloadVars, createVars, installVars>>

\* PlayPort.fetch_versions, lines 409-423: the versions or an error, then
\* enable_fetch_btn
FetchWorker ==
    /\ \E f \in gFetching :
          /\ gFetching' = gFetching \ {f}
          /\ \/ gQueue' = gQueue \o <<Msg("set_versions", f.software),
                                      Msg("enable_fetch_btn", "")>>
             \/ gQueue' = gQueue \o <<Msg("error", ""), Msg("enable_fetch_btn", "")>>
    /\ UNCHANGED <<gBtn, gFetchBtn, gCombo, gSoftware, gValues, gVersion, gWorkers, gDirs,
                   gTree, gFailed, gWarning, gPolling, gRaised, gStarted, gFetched>>
    /\ UNCHANGED <<fetchVars, downloadVars, createVars, installVars>>

\* create_server_threaded, lines 425-474: reached only through the enabled
\* button; a name whose directory exists is refused with a warning
\* (433-435); a software is needed (437-440) and a version unless the
\* software is nukkit (442-445); then the controls are disabled (460-466)
\* and the worker is started (474)
ClickCreate ==
    /\ gBtn
    /\ \E name \in ServerNames :
          \/ /\ DirExists(name, gDirs)
             /\ gWarning' = name
             /\ UNCHANGED <<gBtn, gFetchBtn, gCombo, gWorkers, gStarted>>
          \/ /\ ~DirExists(name, gDirs)
             /\ gSoftware # ""
             /\ gVersion # "" \/ Lower(gSoftware) = "nukkit"
             /\ gStarted < MaxClicks
             /\ gWorkers' = gWorkers \cup
                    {Worker(gStarted + 1, name, gSoftware, gVersion, "start")}
             /\ gBtn' = CreateClicked(gBtn)
             /\ gFetchBtn' = FALSE
             /\ gCombo' = FALSE
             /\ gStarted' = gStarted + 1
             /\ gWarning' = ""
    /\ UNCHANGED <<gSoftware, gValues, gVersion, gFetching, gQueue, gDirs, gTree, gFailed,
                   gPolling, gRaised, gFetched>>
    /\ UNCHANGED <<fetchVars, downloadVars, createVars, installVars>>

\* create_server, lines 479-484: the server directory is made and eula.txt
\* written in it
WorkerMkdir ==
    /\ \E w \in gWorkers :
          /\ w.pc = "start"
          /\ gWorkers' = (gWorkers \ {w}) \cup
                 {Worker(w.id, w.name, w.software, w.version, "made")}
          /\ gDirs' = gDirs \cup {w.name}
    /\ UNCHANGED <<gBtn, gFetchBtn, gCombo, gSoftware, gValues, gVersion, gFetching, gQueue,
                   gTree, gFailed, gWarning, gPolling, gRaised, gStarted, gFetched>>
    /\ UNCHANGED <<fetchVars, downloadVars, createVars, installVars>>

\* create_server, lines 479-480 and 552-553: mkdir raises (a name the file
\* system refuses, a directory that may not be written) and the except
\* clause puts the error
WorkerRaise ==
    /\ \E w \in gWorkers :
          /\ w.pc = "start"
          /\ gWorkers' = (gWorkers \ {w}) \cup
                 {Worker(w.id, w.name, w.software, w.version, "finally")}
          /\ gFailed' = gFailed \cup {FailedCreation(w.name, FALSE)}
    /\ gQueue' = Append(gQueue, Msg("error", ""))
    /\ UNCHANGED <<gBtn, gFetchBtn, gCombo, gSoftware, gValues, gVersion, gFetching, gDirs,
                   gTree, gWarning, gPolling, gRaised, gStarted, gFetched>>
    /\ UNCHANGED <<fetchVars, downloadVars, createVars, installVars>>

\* create_server, lines 492-496: download_server_jar makes the directory
\* again if it is gone (854) and returns a path or False; on False the
\* worker puts the error and returns, the directory stays
WorkerDownload ==
    /\ \E w \in gWorkers :
          /\ w.pc = "made"
          /\ gDirs' = gDirs \cup {w.name}
          /\ \/ /\ gWorkers' = (gWorkers \ {w}) \cup
                       {Worker(w.id, w.name, w.software, w.version, "got")}
                /\ UNCHANGED <<gQueue, gFailed>>
             \/ /\ gWorkers' = (gWorkers \ {w}) \cup
                       {Worker(w.id, w.name, w.software, w.version, "finally")}
                /\ gQueue' = Append(gQueue, Msg("error", ""))
                /\ gFailed' = gFailed \cup {FailedCreation(w.name, TRUE)}
    /\ UNCHANGED <<gBtn, gFetchBtn, gCombo, gSoftware, gValues, gVersion, gFetching, gTree,
                   gWarning, gPolling, gRaised, gStarted, gFetched>>
    /\ UNCHANGED <<fetchVars, downloadVars, createVars, installVars>>

\* create_server, lines 504-553: the installer, the start script and
\* server.properties; a failed installer (508-510) or an exception (552-553;
\* the writes raise when the directory is gone) puts the error, otherwise
\* success and the three messages after it are put (541-550)
WorkerFinish ==
    /\ \E w \in gWorkers :
          /\ w.pc = "got"
          /\ gWorkers' = (gWorkers \ {w}) \cup
                 {Worker(w.id, w.name, w.software, w.version, "finally")}
          /\ \/ /\ gQueue' = Append(gQueue, Msg("error", ""))
                /\ gFailed' = IF w.name \in gDirs
                              THEN gFailed \cup {FailedCreation(w.name, TRUE)}
                              ELSE gFailed
             \/ /\ w.name \in gDirs
                /\ gQueue' = gQueue \o <<Msg("success", ""), Msg("open_folder", ""),
                                         Msg("start_server", ""),
                                         Msg("load_server_list", "")>>
                /\ UNCHANGED gFailed
    /\ UNCHANGED <<gBtn, gFetchBtn, gCombo, gSoftware, gValues, gVersion, gFetching, gDirs,
                   gTree, gWarning, gPolling, gRaised, gStarted, gFetched>>
    /\ UNCHANGED <<fetchVars, downloadVars, createVars, installVars>>

\* create_server, lines 554-555: the finally clause, the worker's last
\* statement
WorkerFinally ==
    /\ \E w \in gWorkers :
          /\ w.pc = "finally"
          /\ gWorkers' = gWorkers \ {w}
    /\ gQueue' = Append(gQueue, Msg("enable_create_ui", ""))
    /\ UNCHANGED <<gBtn, gFetchBtn, gCombo, gSoftware, gValues, gVersion, gFetching, gDirs,
                   gTree, gFailed, gWarning, gPolling, gRaised, gStarted, gFetched>>
    /\ UNCHANGED <<fetchVars, downloadVars, createVars, installVars>>

\* load_server_list, lines 637-670, as the command of Refresh List (350-351):
\* server_tree lists the directories there are
LoadServerList ==
    /\ gTree # gDirs
    /\ gTree' = gDirs
    /\ UNCHANGED <<gBtn, gFetchBtn, gCombo, gSoftware, gValues, gVersion, gWorkers,
                   gFetching, gQueue, gDirs, gFailed, gWarning, gPolling, gRaised,
                   gStarted, gFetched>>
    /\ UNCHANGED <<fetchVars, downloadVars, createVars, installVars>>

\* delete_server, lines 615-635: shutil.rmtree of the server selected in
\* server_tree, then load_server_list; no test of what runs in the directory
\* (a listed server whose directory is gone gives an error dialog and
\* changes nothing)
DeleteServer ==
    /\ \E name \in gTree \cap gDirs :
          /\ gDirs' = gDirs \ {name}
          /\ gTree' = gDirs \ {name}
          /\ gFailed' = {f \in gFailed : f.name # name}
    /\ UNCHANGED <<gBtn, gFetchBtn, gCombo, gSoftware, gValues, gVersion, gWorkers,
                   gFetching, gQueue, gWarning, gPolling, gRaised, gStarted, gFetched>>
    /\ UNCHANGED <<fetchVars, downloadVars, createVars, installVars>>

\* process_queue, lines 691-737: one message taken and handled; a handler
\* that raises leaves its work undone and is caught at 734-735
ProcessQueue ==
    /\ gPolling
    /\ gQueue # <<>>
    /\ gQueue' = Tail(gQueue)
    /\ \E raised \in (IF Head(gQueue).type \in Fallible THEN BOOLEAN ELSE {FALSE}) :
          /\ gRaised' = (gRaised \/ raised)
          /\ gPolling' = Rescheduled(raised)
          /\ gTree' = IF Head(gQueue).type = "load_server_list" /\ ~raised
                      THEN gDirs ELSE gTree
    /\ gBtn' = (IF Head(gQueue).type = "enable_create_ui" THEN TRUE ELSE gBtn)
    /\ gFetchBtn' = (IF Head(gQueue).type \in {"enable_create_ui", "enable_fetch_btn"}
                     THEN TRUE ELSE gFetchBtn)
    /\ gCombo' = (IF Head(gQueue).type \in {"set_versions", "enable_fetch_btn",
                                            "enable_create_ui"}
                  THEN TRUE ELSE gCombo)
    /\ gValues' = (IF Head(gQueue).type = "set_versions"
                   THEN Head(gQueue).text ELSE gValues)
    /\ UNCHANGED <<gSoftware, gVersion, gWorkers, gFetching, gDirs, gFailed, gWarning,
                   gStarted, gFetched>>
    /\ UNCHANGED <<fetchVars, downloadVars, createVars, installVars>>

NextGui ==
    \/ SelectSoftware
    \/ PickVersion
    \/ ClickFetch
    \/ FetchWorker
    \/ ClickCreate
    \/ WorkerMkdir
    \/ WorkerRaise
    \/ WorkerDownload
    \/ WorkerFinish
    \/ WorkerFinally
    \/ LoadServerList
    \/ DeleteServer
    \/ ProcessQueue

SpecGui == InitGui /\ [][NextGui]_vars

\* the timer of self.after(100, ...) fires, and the worker thread is
\* scheduled and its download and installer calls return
SpecGuiLive ==
    /\ SpecGui
    /\ WF_vars(ProcessQueue)
    /\ WF_vars(WorkerMkdir \/ WorkerRaise)
    /\ WF_vars(WorkerDownload)
    /\ WF_vars(WorkerFinish)
    /\ WF_vars(WorkerFinally)

(***************************************************************************)
(* Claims about fetch_versions (checked under SpecFetch).                  *)
(***************************************************************************)
FetchDone == fpc = "done"

NetworkBacked == Providers \ {"nukkit"}

\* the providers that read a key of a JSON object
ObjectProviders == VersionsArrayProviders \cup {"vanilla", "pufferfish", "bungeecord"}

\* the providers that parse JSON
JsonProviders == NetworkBacked \ (MavenProviders \cup {"spigot"})

\* C1: for every provider and every upstream response, 2xx responses without
\* a matching entry included, fetch_versions returns a non-empty sequence.
C1_NeverEmpty == FetchDone /\ fSoftware \in Providers => Len(fOut.versions) > 0

\* C2, as claimed: for every one of the 15 providers an unreachable upstream
\* yields exactly DUMMY_VERSIONS.
C2_UnreachableYieldsDummyAll ==
    FetchDone /\ fSoftware \in Providers /\ fResp.net = "transport"
        => fOut.versions = DUMMY_VERSIONS

\* C2, amended: for every provider but nukkit (which sends no request and
\* returns ["Latest"]) an unreachable upstream yields exactly the sequence
\* "1.100", "1.99", ..., "1.1".
C2_UnreachableYieldsDummy ==
    FetchDone /\ fSoftware \in Providers /\ fResp.net = "transport"
        => IF fSoftware = "nukkit"
           THEN fOut.versions = <<LatestLabel>> /\ fOut.requests = 0
           ELSE /\ Len(fOut.versions) = 100
                /\ \A i \in 1..100 : fOut.versions[i] = <<"1", ".">> \o Str(101 - i)
                /\ fOut.versions[1] = <<"1", ".", "1", "0", "0">>
                /\ fOut.versions[2] = <<"1", ".", "9", "9">>
                /\ fOut.versions[100] = <<"1", ".", "1">>

C2_Witness ==
    /\ FetchDone /\ fSoftware = "forge" /\ fResp.net = "transport"
    /\ fOut.versions = DUMMY_VERSIONS /\ fOut.requests = 1

\* C3: for every network-backed provider a transport error, a non-2xx
\* status, an unparsable JSON or XML body and a parsed body of an unexpected
\* shape (the wrong container, or an object without the key the code reads)
\* each yield exactly DUMMY_VERSIONS.
C3_FailuresYieldDummy ==
    /\ FetchDone
    /\ fSoftware \in NetworkBacked
    /\ \/ fResp.net # "ok"
       \/ ~fResp.parse /\ fSoftware # "spigot"
       \/ ~fResp.top /\ fSoftware \in JsonProviders
       \/ ~fResp.field /\ fSoftware \in ObjectProviders
    => fOut.versions = DUMMY_VERSIONS

\* C4: for every provider and every upstream response the returned sequence
\* has at most 100 entries.
C4_AtMost100 == FetchDone => Len(fOut.versions) <= 100

C4_Witness ==
    /\ FetchDone /\ fOut.raised = "no" /\ fSoftware = "paper"
    /\ Len(fResp.items) > 100
    /\ Len(fOut.versions) = 100

SortedProviders == MavenProviders \cup {"spigot"}

\* C5, as claimed: for forge, neoforge and spigot the returned sequence is
\* strictly descending under version_key.
C5_StrictlyDescending ==
    FetchDone /\ fSoftware \in SortedProviders
        => \A i \in 1..(Len(fOut.versions) - 1) :
              TupleLess(version_key(fOut.versions[i + 1]), version_key(fOut.versions[i]))

\* C5, amended: for forge, neoforge and spigot the returned sequence is
\* descending under version_key, not strictly: of two adjacent entries a, b
\* (a before b), version_key(a) >= version_key(b).
C5_Descending ==
    FetchDone /\ fSoftware \in SortedProviders
        => \A i \in 1..(Len(fOut.versions) - 1) :
              ~TupleLess(version_key(fOut.versions[i]), version_key(fOut.versions[i + 1]))

C5_Witness ==
    /\ FetchDone /\ fSoftware = "forge" /\ fOut.raised = "no"
    /\ Names(fResp.items) = <<V1_2_5, V1_20a, V1_20_1>>
    /\ fOut.versions = <<V1_20_1, V1_20a, V1_2_5>>

\* C6: for every provider and every upstream response the returned sequence
\* holds no version identifier twice.
C6_NoDuplicates ==
    FetchDone /\ fSoftware \in Providers
        => \A i, j \in 1..Len(fOut.versions) : i # j => fOut.versions[i] # fOut.versions[j]

(***************************************************************************)
(* Claims about download_server_jar (checked under SpecDownload).          *)
(***************************************************************************)
DownloadDone == dpc = "done"

\* the call asked for a version that the upstream does not have
UnknownVersionAsked == dVersion # <<>> /\ ~Exists(dVersion, dUp)

\* the last request sent was the download request
DownloadRequested ==
    dOut.url # <<>> /\ Len(dOut.sent) > 0 /\ dOut.sent[Len(dOut.sent)] = dOut.url

\* C7, as claimed: for every provider (stated here for the 14 that list
\* versions; nukkit has the one label "Latest"), a version that does not
\* exist upstream ends in failure, and no download URL is built from it and
\* no download request is sent for it.
C7_UnknownVersionNeverDownloaded ==
    DownloadDone /\ dType \in Providers \ {"nukkit"} /\ UnknownVersionAsked
        => ~dOut.ok /\ dOut.url = <<>> /\ ~DownloadRequested

\* What does hold for an unknown version: for the providers whose recipe asks the upstream about the
\* requested version before the download (vanilla, pufferfish, purpur,
\* pocketmine-mp, paper, folia, velocity, waterfall) a version that does not
\* exist upstream ends in failure with no download URL built and no download
\* request sent; for the direct-template providers (spigot, quilt, neoforge,
\* forge, bungeecord) the URL is built from that version, the download
\* request is sent, and the call fails when that request fails.
C7_UnknownVersionFails ==
    DownloadDone /\ UnknownVersionAsked
        => /\ dType \in IndexProviders \cup EndpointProviders
                => /\ ~dOut.ok /\ dOut.path = <<>>
                   /\ dOut.url = <<>> /\ ~DownloadRequested
                   /\ ~dOut.wrote
                   /\ Len(dOut.sent) <= MetaRequests(dType)
           /\ dType \in DirectProviders
                => /\ ~dOut.ok /\ dOut.path = <<>>
                   /\ DownloadRequested /\ Len(dOut.sent) = 1
                   /\ ~dOut.wrote

C7_Witness ==
    /\ DownloadDone /\ dType = "vanilla" /\ dVersion = V1_20_1
    /\ dUp.versions = <<V1_20_4>> /\ dUp.r = <<"ok", "ok", "ok">> /\ dUp.dl = "ok"
    /\ ~dOut.ok /\ dOut.diag = "version_not_found" /\ Len(dOut.sent) = 1

\* C8: for paper, folia, velocity and waterfall the first request is
\* {base}/versions/{version}; the build is the last element of the builds
\* array; the download URL and the file name embed exactly that build and
\* the requested version.
C8_LastBuildEmbedded ==
    DownloadDone /\ dType \in PaperFamily /\ dVersion # <<>>
        => /\ dOut.sent[1] = <<versions_urls[dType], "/versions/">> \o dVersion
           /\ dOut.url # <<>> =>
                LET build == Str(dUp.builds[Len(dUp.builds)])
                    name == <<dType, "-">> \o dVersion \o <<"-">> \o build \o <<".jar">>
                IN  /\ dOut.file_name = name
                    /\ dOut.url = <<"https://api.papermc.io/v2/projects/", dType, "/versions/">>
                                     \o dVersion \o <<"/builds/">> \o build
                                     \o <<"/downloads/">> \o name
                    /\ dOut.sent[2] = dOut.url
                    /\ Len(dUp.builds) = 1 => build = Str(dUp.builds[1])

C8_Witness ==
    /\ DownloadDone /\ dType = "folia" /\ dVersion = V1_20_1 /\ dOut.ok
    /\ dUp.builds = <<8, 7>>
    /\ dOut.file_name = <<"folia", "-">> \o V1_20_1 \o <<"-", "7", ".jar">>

\* an expected field or list is missing from an upstream response
FieldMissing ==
    /\ dVersion # <<>> \/ dType = "fabric"
    /\ \/ /\ dType \in PaperFamily
          /\ dUp.r[1] = "nofield" \/ (dUp.r[1] = "ok" /\ dUp.builds = <<>>)
       \/ /\ dType = "vanilla" /\ Exists(dVersion, dUp)
          /\ dUp.r[1] = "ok" /\ dUp.r[2] = "nofield"
       \/ dType = "fabric" /\ dUp.r[1] = "ok" /\ dUp.files = <<>>
       \/ /\ dType = "pufferfish" /\ Exists(dVersion, dUp) /\ dUp.r[1] = "ok"
          /\ \/ dUp.r[2] = "nofield"
             \/ dUp.r[2] = "ok" /\ dUp.builds = <<>>
             \/ dUp.r[2] = "ok" /\ dUp.builds # <<>> /\ dUp.r[3] = "nofield"
             \/ dUp.r[2] = "ok" /\ dUp.builds # <<>> /\ dUp.r[3] = "ok" /\ dUp.files = <<>>
       \/ /\ dType = "pocketmine-mp" /\ dUp.r[1] = "ok"
          /\ \A i \in 1..Len(dUp.files) : ~EndsWithPhar(dUp.files[i])

\* C9: when an expected field or list is missing from an upstream response,
\* the failure reported is the recipe's own diagnosis, not the generic
\* unexpected-exception outcome.
C9_SpecificDiagnosis ==
    DownloadDone /\ FieldMissing
        => ~dOut.ok /\ dOut.diag \notin {"unexpected", "network", "none"}

(***************************************************************************)
(* Claims about create_server, checked under SpecCreate.                   *)
(***************************************************************************)
DownloadStageFailed == dOut # NoDownload /\ ~dOut.ok

InstallerStageFailed == cInst.result = "False"

Posted(type) == \E i \in 1..Len(queue) : queue[i].type = type

\* C10: once download_server_jar or run_installer has failed in
\* create_server, no later stage runs: no installer after a failed download,
\* no start script and no server.properties written, no success, open_folder
\* or start_server message posted; and an error message is posted.
C10_FailureStopsStages ==
    cpc # "idle" /\ (DownloadStageFailed \/ InstallerStageFailed)
        => /\ DownloadStageFailed => cInst = NotInstalled /\ "installer" \notin Range(cTrace)
           /\ "script" \notin Range(cTrace) /\ "properties" \notin Range(cTrace)
           /\ <<"start", ".bat">> \notin FileNames(dDir)
           /\ <<"server", ".properties">> \notin FileNames(dDir)
           /\ ~Posted("success") /\ ~Posted("open_folder") /\ ~Posted("start_server")
           /\ Posted("error")
           /\ cpc \in {"finally", "done"}

\* the installer's child process ran and failed after a good download, and
\* the worker thread has finished
C10_Witness ==
    /\ cpc = "done" /\ dOut.ok /\ dOut.complete
    /\ InstallerStageFailed /\ cInst.ran
    /\ Posted("error") /\ Posted("enable_create_ui")

\* the worker thread has finished after a failed download or installer
AcquisitionFailed == cpc = "done" /\ (DownloadStageFailed \/ InstallerStageFailed)

\* C11: after a failed acquisition the server directory holds only files
\* written by the download or by the installer; create_server itself has
\* created no other file in it.
C11_OnlyAcquiredFiles ==
    AcquisitionFailed
        => \A f \in dDir.files :
              \/ dOut.wrote /\ f = Downloaded(dOut)
              \/ cInst.ran /\ f \in cEnv.made

\* the place of a stage in the trace, 0 when it has not run
Position(trace, stage) ==
    IF stage \in Range(trace) THEN CHOOSE i \in 1..Len(trace) : trace[i] = stage ELSE 0

Times(trace, stage) == Cardinality({i \in 1..Len(trace) : trace[i] = stage})

\* C12: in create_server, run_installer is invoked if and only if the
\* software is forge, fabric, neoforge or quilt and the download returned a
\* path; it is invoked after the download has completed and before any start
\* script is written.
C12_InstallerIffInstallerSoftware ==
    LET invoked == "installer" \in Range(cTrace)
        needed == dType \in {"forge", "fabric", "neoforge", "quilt"} /\ dOut # NoDownload /\ dOut.ok
    IN  /\ invoked => needed /\ Times(cTrace, "installer") = 1
        /\ invoked => /\ Position(cTrace, "download") > 0
                      /\ Position(cTrace, "download") < Position(cTrace, "installer")
                      /\ dOut.complete
        /\ "script" \in Range(cTrace) \/ "properties" \in Range(cTrace) \/ cpc = "done"
              => (invoked <=> needed)
        /\ invoked /\ "script" \in Range(cTrace)
              => Position(cTrace, "installer") < Position(cTrace, "script")

\* fabric: the installer ran between the download and the start script
C12_Witness ==
    /\ cpc = "done" /\ dType = "fabric"
    /\ cTrace = <<"mkdir", "eula", "download", "installer", "script", "properties">>

(***************************************************************************)
(* Claims about run_installer, checked under SpecInstall.                  *)
(***************************************************************************)
InstallDone == ipc = "done"

\* the installer is of this software, by the name download_server_jar gave it
InstallerOf(software) ==
    BaseName(iPath)[1] = (CASE software = "forge" -> "forge-"
                            [] software = "neoforge" -> "neoforge-"
                            [] software = "fabric" -> "fabric-installer-"
                            [] software = "quilt" -> "quilt-installer-")

InstallerPresent == iDir.exists /\ BaseName(iPath) \in FileNames(iDir)

\* C13: for a fabric or quilt installer, once the child process has exited
\* with code 0, run_installer returns the fixed path
\* target_folder/fabric-server-launch.jar or
\* target_folder/quilt-server-launch.jar whatever the target folder holds: no
\* scan of the folder, no test that the file exists.
C13_FixedLaunchPath ==
    \A loader \in {"fabric", "quilt"} :
        InstallDone /\ InstallerOf(loader) /\ InstallerPresent
        /\ iMcVersion # <<>> /\ iEnv.exit = "zero"
            => /\ iOut.ran /\ iOut.result = "Path"
               /\ iOut.path = DestFolder \o <<loader \o "-server-launch", ".jar">>

\* the path returned names a file that is not in the target folder
C13_Witness ==
    /\ InstallDone /\ InstallerOf("fabric") /\ iEnv.exit = "zero"
    /\ iOut.result = "Path"
    /\ iOut.path = DestFolder \o <<"fabric-server-launch", ".jar">>
    /\ BaseName(iOut.path) \notin FileNames(iDir)
    /\ LibraryJar \in iDir.files

\* C14: run_installer for a fabric or quilt installer with no mc_version
\* returns failure without starting the child process; for a forge or
\* neoforge installer the absence of mc_version never causes a failure: the
\* outcomes are those of the same call with an mc_version.
C14_McVersionFailsFast ==
    /\ InstallDone /\ (InstallerOf("fabric") \/ InstallerOf("quilt")) /\ iMcVersion = <<>>
          => iOut.result = "False" /\ ~iOut.ran
    /\ InstallerOf("forge") \/ InstallerOf("neoforge")
          => /\ run_installer(iPath, DestFolder, <<>>, iDir, iEnv)
                  = run_installer(iPath, DestFolder, V1_20_1, iDir, iEnv)
             /\ InstallDone /\ InstallerPresent /\ iMcVersion = <<>> => iOut.ran

\* a quilt installer that is there, with a child process that would have
\* exited with 0, and no mc_version
C14_Witness ==
    /\ InstallDone /\ InstallerOf("quilt") /\ InstallerPresent
    /\ iMcVersion = <<>> /\ iEnv.exit = "zero"
    /\ iOut.result = "False" /\ ~iOut.ran

\* C16: for a forge installer, after the child process has exited with 0,
\* run_installer returns the largest file by size among the *.jar files of
\* the target folder whose name does not hold "installer", and failure when
\* there is none; the installer jar itself is never returned.
C16_LargestJarNotInstaller ==
    InstallDone /\ InstallerOf("forge") /\ InstallerPresent /\ iEnv.exit = "zero"
        => LET jars == {f \in iDir.files :
                           Suffix(f.name) = ".jar" /\ ~Mentions(f.name, "installer")}
           IN  IF jars = {}
               THEN iOut.result = "False"
               ELSE /\ iOut.result = "Path"
                    /\ \E f \in jars : /\ iOut.path = DestFolder \o f.name
                                       /\ \A o \in jars : o.size <= f.size
                    /\ iOut.path # iPath

\* the server jar is returned although two installers in the folder are larger
C16_Witness ==
    /\ InstallDone /\ InstallerOf("forge") /\ iEnv.exit = "zero"
    /\ OldInstaller \in iDir.files
    /\ iEnv.made = {ForgeJar, ServerJar}
    /\ iOut.result = "Path" /\ iOut.path = DestFolder \o ServerJar.name

\* C17: run_installer returns failure without starting the child process
\* when the installer file does not exist, and returns failure (never a
\* path, never the sentinel) when the child process exits with a nonzero
\* code.
C17_MissingOrNonzeroFails ==
    /\ InstallDone /\ ~InstallerPresent => iOut.result = "False" /\ ~iOut.ran
    /\ InstallDone /\ iEnv.exit = "nonzero" => iOut.result = "False"

\* a forge installer whose child process left the server jars and exited
\* with a nonzero code
C17_Witness ==
    /\ InstallDone /\ InstallerOf("forge") /\ InstallerPresent
    /\ iEnv.exit = "nonzero" /\ iEnv.made = {ForgeJar, ServerJar}
    /\ iOut.ran /\ iOut.result = "False"
    /\ ServerJar \in iDir.files

TemplateUrl ==
    CASE dType = "spigot" -> <<"https://cdn.getbukkit.org/spigot/spigot-">> \o dVersion \o <<".jar">>
      [] dType = "quilt" ->
            <<"https://maven.quiltmc.org/repository/release/org/quiltmc/quilt-installer/">>
                \o dVersion \o <<"/quilt-installer-">> \o dVersion \o <<".jar">>
      [] dType = "neoforge" ->
            <<"https://maven.neoforged.net/releases/net/neoforged/neoforge/">>
                \o dVersion \o <<"/neoforge-">> \o dVersion \o <<"-installer", ".jar">>
      [] dType = "forge" ->
            <<"https://maven.minecraftforge.net/net/minecraftforge/forge/">>
                \o dVersion \o <<"/forge-">> \o dVersion \o <<"-installer", ".jar">>
      [] dType = "bungeecord" ->
            <<"https://ci.md-5.net/job/BungeeCord/">> \o dVersion
                \o <<"/artifact/bootstrap/target/BungeeCord", ".jar">>
      [] OTHER -> <<>>

TemplateFileName ==
    CASE dType = "spigot" -> <<"spigot-">> \o dVersion \o <<".jar">>
      [] dType = "quilt" -> <<"quilt-installer-">> \o dVersion \o <<".jar">>
      [] dType = "neoforge" -> <<"neoforge-">> \o dVersion \o <<"-installer", ".jar">>
      [] dType = "forge" -> <<"forge-">> \o dVersion \o <<"-installer", ".jar">>
      [] dType = "bungeecord" -> <<"BungeeCord-">> \o dVersion \o <<".jar">>
      [] OTHER -> <<>>

\* C18: for spigot, quilt, neoforge, forge and bungeecord, download_server_jar
\* called with a version sends exactly one HTTP request, the download, with
\* no metadata request before it; the URL and the file name are the requested
\* version substituted into the provider's fixed template.
C18_DirectOneRequest ==
    DownloadDone /\ dType \in {"spigot", "quilt", "neoforge", "forge", "bungeecord"}
    /\ dVersion # <<>>
        => /\ dOut.sent = <<dOut.url>>
           /\ dOut.url = TemplateUrl
           /\ dOut.file_name = TemplateFileName
           /\ dOut.ok => dOut.path = DestFolder \o TemplateFileName

C18_Witness ==
    /\ DownloadDone /\ dType = "bungeecord" /\ dVersion = V1_20_1 /\ dOut.ok
    /\ dOut.sent = <<<<"https://ci.md-5.net/job/BungeeCord/">> \o V1_20_1
                        \o <<"/artifact/bootstrap/target/BungeeCord", ".jar">>>>
    /\ dOut.file_name = <<"BungeeCord-">> \o V1_20_1 \o <<".jar">>

\* C19: no stage retries.  Within one call fetch_versions sends at most one
\* HTTP request; download_server_jar sends each metadata request and the
\* download request at most once; a request that failed is the last request
\* of the call.
C19_NoRetry ==
    /\ FetchDone => fOut.requests <= 1
    /\ DownloadDone
          => /\ \A i, j \in 1..Len(dOut.sent) : i # j => dOut.sent[i] # dOut.sent[j]
             /\ Len(dOut.sent) <= MetaRequests(dType) + 1
             /\ \A k \in 1..3 :
                   dUp.r[k] \in NetBad /\ Len(dOut.sent) >= k => Len(dOut.sent) = k
             /\ dOut.url \in Range(dOut.sent) => dOut.sent[Len(dOut.sent)] = dOut.url
             /\ ~dOut.ok => dOut.path = <<>>

\* pufferfish: the second of three metadata requests failed and was the last
C19_Witness ==
    /\ DownloadDone /\ dType = "pufferfish" /\ dVersion = V1_20_1
    /\ dUp.r[1] = "ok" /\ dUp.r[2] \in NetBad
    /\ Len(dOut.sent) = 2 /\ ~dOut.ok /\ dOut.diag = "network"

\* C20: for fabric the resolved download URL and the file name do not depend
\* on the requested version: against the same installer listing every
\* requested version, the empty one included, resolves the same URL and file
\* name, both built from the version of the first entry of the listing.
C20_FabricIgnoresVersion ==
    DownloadDone /\ dType = "fabric"
        => /\ \A v \in RequestedVersions \cup {V1_20_4, V1_2_5} :
                 LET other == download_server_jar("fabric", v, DestFolder, dUp)
                 IN  /\ other.url = dOut.url
                     /\ other.file_name = dOut.file_name
                     /\ other.sent = dOut.sent
                     /\ other.ok = dOut.ok
           /\ dOut.url # <<>>
                 => /\ dOut.file_name = <<"fabric-installer-">> \o dUp.files[1] \o <<".jar">>
                    /\ dOut.url = <<"https://maven.fabricmc.net/net/fabricmc/fabric-installer/">>
                                     \o dUp.files[1] \o <<"/fabric-installer-">>
                                     \o dUp.files[1] \o <<".jar">>

\* version 1.20.1 was asked for; the installer 1.0.1, first of the listing,
\* was downloaded
C20_Witness ==
    /\ DownloadDone /\ dType = "fabric" /\ dVersion = V1_20_1 /\ dOut.ok
    /\ dUp.files = <<<<"1", ".", "0", ".", "1">>, <<"0", ".", "1", "1", ".", "2">>>>
    /\ dOut.file_name = <<"fabric-installer-", "1", ".", "0", ".", "1", ".jar">>

\* C21: download_server_jar creates the destination directory when it is
\* absent; when the download request fails with a transport error or a
\* non-2xx status it returns False, never a path.
C21_MkdirAndDownloadFailure ==
    DownloadDone
        => /\ dDir.exists
           /\ DownloadRequested /\ dUp.dl \in {"transport", "status"}
                 => ~dOut.ok /\ dOut.path = <<>> /\ dOut.diag = "network"

\* the directory was absent, the download request was answered with a
\* non-2xx status
C21_Witness ==
    /\ DownloadDone /\ ~dDir0.exists /\ dDir = Dir(TRUE, {})
    /\ DownloadRequested /\ dUp.dl = "status" /\ ~dOut.ok

\* C22: a successful download_server_jar writes exactly one file into the
\* destination directory, named by the resolved file name, and returns its
\* path; a call that fails during resolution, or whose download request is
\* answered with a non-2xx status or not at all, writes no file.
C22_ExactlyOneFile ==
    DownloadDone
        => /\ dOut.ok
                 => /\ dDir.files = {f \in dDir0.files : f.name # dOut.file_name}
                                        \cup {File(dOut.file_name, dOut.url, FullSize)}
                    /\ dOut.file_name # <<>>
                    /\ dOut.path = DestFolder \o dOut.file_name
           /\ ~dOut.ok /\ (~DownloadRequested \/ dUp.dl \in {"transport", "status"})
                 => dDir.files = dDir0.files

\* spigot's jar written over the stale file of the same name
C22_Witness ==
    /\ DownloadDone /\ dOut.ok /\ dType = "spigot"
    /\ dDir0 = Dir(TRUE, {StaleJar})
    /\ dDir.files = {File(StaleJar.name, dOut.url, FullSize)}

\* another server directory
OtherFolder == <<"servers/", "creative", "/">>

WellFormed == fResp.net = "ok" /\ fResp.parse /\ fResp.top /\ fResp.field

\* C26: for purpur, paper, folia, velocity and waterfall fetch_versions
\* returns the upstream versions array reversed and then capped: of an array
\* of more than 100 entries the last 100, in reverse order; the newest
\* (last) upstream entry is first and the oldest are the ones dropped.
C26_ReversedThenCapped ==
    FetchDone /\ fSoftware \in {"purpur", "paper", "folia", "velocity", "waterfall"}
    /\ WellFormed
        => LET n == Len(fResp.items)
               k == IF n > 100 THEN 100 ELSE n
           IN  /\ Len(fOut.versions) = k
               /\ \A i \in 1..k : fOut.versions[i] = fResp.items[n + 1 - i].name
               /\ fOut.requests = 1 /\ fOut.raised = "no"

\* 101 upstream entries "1.1" .. "1.101": "1.101" comes first, "1.1" is dropped
C26_Witness ==
    /\ FetchDone /\ fSoftware = "purpur" /\ WellFormed
    /\ Len(fResp.items) = 101
    /\ fOut.versions[1] = <<"1", ".", "1", "0", "1">>
    /\ fOut.versions[100] = <<"1", ".", "2">>

\* C27: for nukkit fetch_versions returns the single fixed label ["Latest"]
\* and sends no network request, whatever the state of the upstream.
C27_NukkitStaticLabel ==
    FetchDone /\ fSoftware = "nukkit"
        => /\ fOut.versions = <<<<"Latest">>>>
           /\ fOut.requests = 0
           /\ fOut.raised = "no"

\* the upstream is unreachable
C27_Witness ==
    /\ FetchDone /\ fSoftware = "nukkit" /\ fResp.net = "transport"
    /\ fOut.versions = <<<<"Latest">>>> /\ fOut.requests = 0

(***************************************************************************)
(* Claims about the recipes of pufferfish and pocketmine-mp, checked under *)
(* SpecDownload.                                                           *)
(***************************************************************************)
\* C28: for pufferfish download_server_jar sends its metadata requests in
\* the order base listing, the job of the requested version, that job's
\* first listed (most recent) build, and only then the download; the final
\* URL is that build's URL followed by /artifact/ and the relative path of
\* the build's first artifact; when the version has no job, the job has no
\* builds or the build has no artifacts, it returns failure and sends no
\* further request.
C28_PufferfishOrder ==
    DownloadDone /\ dType = "pufferfish" /\ dVersion # <<>>
        => LET sent == dOut.sent
               job == <<"https://ci.pufferfish.host/job/">> \o dVersion
           IN  /\ Len(sent) \in 1..4
               /\ sent[1] = <<"https://ci.pufferfish.host/view/all/api/json">>
               /\ Len(sent) >= 2 => Exists(dVersion, dUp) /\ sent[2] = job \o <<"/api/json">>
               /\ Len(sent) >= 3
                     => /\ dUp.builds # <<>>
                        /\ sent[3] = job \o <<"/">> \o Str(dUp.builds[1]) \o <<"/api/json">>
               /\ Len(sent) = 4
                     => /\ dUp.files # <<>>
                        /\ sent[4] = job \o <<"/">> \o Str(dUp.builds[1])
                                         \o <<"/artifact/">> \o dUp.files[1]
                        /\ dOut.url = sent[4]
               /\ dOut.ok => Len(sent) = 4
               /\ dUp.r[1] \notin NetBad /\ (dUp.r[1] = "nofield" \/ ~Exists(dVersion, dUp))
                     => ~dOut.ok /\ Len(sent) = 1
               /\ dUp.r[1] = "ok" /\ Exists(dVersion, dUp) /\ dUp.r[2] \notin NetBad
                  /\ (dUp.r[2] = "nofield" \/ dUp.builds = <<>>)
                     => ~dOut.ok /\ Len(sent) = 2
               /\ dUp.r[1] = "ok" /\ Exists(dVersion, dUp) /\ dUp.r[2] = "ok"
                  /\ dUp.builds # <<>> /\ dUp.r[3] \notin NetBad
                  /\ (dUp.r[3] = "nofield" \/ dUp.files = <<>>)
                     => ~dOut.ok /\ Len(sent) = 3

\* builds 8 then 7 listed: build 8 and its first artifact are downloaded
C28_Witness ==
    /\ DownloadDone /\ dType = "pufferfish" /\ dVersion = V1_20_1 /\ dOut.ok
    /\ dUp.builds = <<8, 7>>
    /\ dUp.files = <<<<"build/libs/pufferfish-paperclip", ".jar">>, <<"build/libs/sources", ".jar">>>>
    /\ dOut.url = <<"https://ci.pufferfish.host/job/">> \o V1_20_1
                     \o <<"/", "8", "/artifact/", "build/libs/pufferfish-paperclip", ".jar">>

\* C29: for pocketmine-mp download_server_jar uses the first asset of the
\* requested release whose name ends in .phar: its browser_download_url is
\* the download URL and its name, unchanged, the file name; when the release
\* has no such asset it returns failure without a download request.
C29_FirstPharAsset ==
    DownloadDone /\ dType = "pocketmine-mp" /\ dVersion # <<>> /\ dUp.r[1] = "ok"
        => LET assets == dUp.files
               phars == {i \in 1..Len(assets) : assets[i][Len(assets[i])] = ".phar"}
               api_url == <<"https://api.github.com/repos/pmmp/PocketMine-MP/releases/tags/">>
                              \o dVersion
           IN  IF phars = {}
               THEN /\ ~dOut.ok /\ dOut.diag = "no_phar"
                    /\ dOut.url = <<>> /\ dOut.sent = <<api_url>>
               ELSE LET first == CHOOSE i \in phars : \A j \in phars : i <= j
                    IN  /\ dOut.file_name = assets[first]
                        /\ dOut.url = AssetUrl(dVersion, assets[first])
                        /\ dOut.sent = <<api_url, dOut.url>>
                        /\ dOut.ok => dOut.path = DestFolder \o assets[first]

\* two .phar assets: the first is taken
C29_Witness ==
    /\ DownloadDone /\ dType = "pocketmine-mp" /\ dVersion = V1_20_1 /\ dOut.ok
    /\ dUp.files = <<<<"PocketMine-MP-dev", ".phar">>, <<"PocketMine-MP", ".phar">>>>
    /\ dOut.file_name = <<"PocketMine-MP-dev", ".phar">>

(***************************************************************************)
(* Claims about the start script and the messages of create_server,        *)
(* checked under SpecCreate.                                               *)
(***************************************************************************)
\* the file of that name in the server directory
FileNamed(name) == CHOOSE f \in dDir.files : f.name = name

\* the place of the first message of a type in the queue, 0 when there is none
FirstPosted(type) ==
    IF Posted(type) THEN CHOOSE i \in 1..Len(queue) :
                            queue[i].type = type /\ \A j \in 1..(i - 1) : queue[j].type # type
    ELSE 0

\* C24: every successful create_server writes a start script before it
\* posts the success message, and the launch template follows the kind of the
\* final executable: java -jar for a .jar (the NeoForge args-file template
\* when the software is neoforge), php for a .phar; no successful creation
\* ends without a start script.
C24_ScriptBeforeSuccess ==
    Posted("success")
        => /\ "script" \in Range(cTrace)
           /\ ~Posted("error")
           /\ \A i \in 1..Len(queue) : queue[i].text # "no start script"
           /\ <<"start", ".bat">> \in FileNames(dDir)
           /\ cExec[Len(cExec)] \in {".jar", ".phar"}
           /\ LET script == FileNamed(<<"start", ".bat">>).data
                  name == SubSeq(cExec, Len(DestFolder) + 1, Len(cExec))
              IN  /\ cExec[Len(cExec)] = ".jar" /\ dType # "neoforge"
                        => script = <<"java", "-jar">> \o name \o <<"nogui">>
                  /\ cExec[Len(cExec)] = ".jar" /\ dType = "neoforge"
                        => script = <<"java", "@user_jvm_args.txt",
                                      "@libraries/net/neoforged/neoforge/">>
                                        \o dVersion \o <<"/win_args.txt", "nogui">>
                  /\ cExec[Len(cExec)] = ".phar" => script = <<"php">> \o name

\* pocketmine-mp: the php template
C24_Witness ==
    /\ cpc = "done" /\ dType = "pocketmine-mp" /\ Posted("success")
    /\ FileNamed(<<"start", ".bat">>).data = <<"php", "PocketMine-MP", ".phar">>

Count(type) == Cardinality({i \in 1..Len(queue) : queue[i].type = type})

\* C30: every creation worker posts exactly one terminal outcome message,
\* one error or one success and never both, and exactly one enable_create_ui
\* message, which is the last message it puts on the queue.
C30_OneOutcomeThenEnable ==
    /\ Count("error") + Count("success") <= 1
    /\ Count("enable_create_ui") <= 1
    /\ Posted("enable_create_ui")
          => /\ cpc = "done"
             /\ queue[Len(queue)].type = "enable_create_ui"
             /\ FirstPosted("error") + FirstPosted("success") > 0
    /\ cpc = "done"
          => /\ Count("error") + Count("success") = 1
             /\ Count("enable_create_ui") = 1

\* the write of server.properties raised after the start script was written
C30_Witness ==
    /\ cpc = "done" /\ dOut.ok /\ "script" \in Range(cTrace)
    /\ "properties" \notin Range(cTrace)
    /\ Count("error") = 1 /\ Count("success") = 0
    /\ queue[Len(queue)].type = "enable_create_ui"

(***************************************************************************)
(* Claims about the window, checked under SpecGui.                         *)
(***************************************************************************)
\* C23: for any sequence of user actions in the window, at most one creation
\* worker runs at a time for a given server directory.
C23_OneWorkerPerDirectory ==
    /\ \A name \in ServerNames : Cardinality({w \in gWorkers : w.name = name}) <= 1
    /\ Cardinality(gWorkers) <= 1
    /\ gWorkers # {} => ~gBtn

\* the second worker runs for the name the first was started for, whose
\* directory was deleted after it had failed, while a fetch worker runs
C23_Witness ==
    /\ gStarted = 2
    /\ \E w \in gWorkers : w.id = 2 /\ w.name = "survival" /\ w.pc = "made"
    /\ FailedCreation("survival", TRUE) \notin gFailed
    /\ gDirs = {"survival"}
    /\ gFetching # {}

Creating == ~gBtn

\* C32: from the start of a creation worker until its enable_create_ui is
\* processed, the Fetch Versions button and the version selector stay
\* disabled, whatever a fetch worker started before the creation does.
C32_FetchControlsStayDisabled == Creating => ~gFetchBtn /\ ~gCombo

\* the fetch workers in flight: those that run and those whose
\* enable_fetch_btn is still in the queue
InFlight ==
    Cardinality(gFetching)
        + Cardinality({i \in 1..Len(gQueue) : gQueue[i].type = "enable_fetch_btn"})

\* C33: at most one fetch worker is in flight at any time, and the Fetch
\* Versions button is never enabled while one is, whatever a creation worker
\* does meanwhile.
C33_OneFetchInFlight ==
    /\ InFlight <= 1
    /\ gFetchBtn => InFlight = 0

\* C34: the versions the selector offers were fetched for the software that
\* is selected, so no creation is started with a version of another software.
C34_VersionsOfSelectedSoftware ==
    /\ gCombo /\ gValues # "" => gValues = gSoftware
    /\ gVersion # "" => gVersion = gSoftware
    /\ \A w \in gWorkers : w.version # "" => w.version = w.software

\* no creation worker is started for a name whose directory is there
RequestsRejected == \A w \in gWorkers : w.pc = "start" => w.name \notin gDirs

\* C35 as the specification states it: every failed creation leaves the
\* server directory in place, so that every later request with the same name
\* is rejected until the directory is deleted.
C35_FailedCreationLeavesDirectory ==
    /\ \A f \in gFailed : f.name \in gDirs
    /\ RequestsRejected

\* C35: a creation that fails after its directory was made (a failed
\* download or installer, an exception after mkdir) leaves the directory in
\* place, and every later request with the same name is rejected with the
\* already-exists warning until the directory is deleted.
C35_FailedAfterMkdirLeavesDirectory ==
    /\ \A f \in gFailed : f.made => f.name \in gDirs
    /\ RequestsRejected

\* the download of survival failed, its directory was left, and a later
\* request for survival got the warning
C35_Witness ==
    /\ FailedCreation("survival", TRUE) \in gFailed
    /\ gWarning = "survival"
    /\ gWorkers = {}
    /\ gBtn

\* C36: no step removes the directory of a creation worker that is still
\* running, whatever the order of Refresh List, Delete Server and the
\* worker's steps.
C36_NoDeleteDuringCreation ==
    [][\A w \in gWorkers : w.name \in gDirs => w.name \in gDirs']_vars

====
